---- MODULE Spec2Model ----
(***************************************************************************)
(* A model of the pointer-set arena allocator (src/src/index.ts): the      *)
(* pointer codec, the per-block free-list stack, the block operations and  *)
(* the arena dispatch layer.                                               *)
(*                                                                         *)
(* JavaScript numbers that may leave the signed 31-bit range (pointers,    *)
(* slab entries) are kept as a pair <<hi, lo>> standing for                *)
(* hi * 65536 + lo with lo in 0..65535 and hi any integer, so that the     *)
(* 32-bit conversions of the bitwise operators and of the Uint32Array      *)
(* stores are computed, not assumed.                                       *)
(***************************************************************************)
EXTENDS Integers, Sequences, FiniteSets, TLC

VARIABLES
    blockSize,      \* constructor argument: entries per block
    fieldNames,     \* constructor argument fields: the pointer field names
    rawFieldNames,  \* constructor argument rawFields: the raw field names
    elided,         \* how many full blocks after the root are left out of blocks
    blocks,         \* this.blocks: the root, then the blocks after the elided ones
    blocksAvail,    \* this.blocksAvail: Set of block ids, in insertion order
    issued,         \* pointers that alloc has returned so far (what a caller holds)
    last            \* the last call: operation and error thrown

vars == <<blockSize, fieldNames, rawFieldNames, elided, blocks, blocksAvail, issued, last>>
\* what no call changes
config == <<blockSize, fieldNames, rawFieldNames, elided>>

-----------------------------------------------------------------------------
(* Bounds of the model *)

\* blockSize passed to the constructor in the arena specifications
BlockSize == 2
\* the block size of the capacity scenario (the 'expand' test)
CapacityBlockSize == 5
\* the number of allocs of the capacity scenario
CapacityAllocs == 6
\* blockSize of the alloc-then-free scenario and of the single-block arena
ScenarioBlockSize == 3
\* the arena is not grown past this many blocks
MaxBlocks == 2
\* the same for the alloc-then-free scenario
ScenarioBlocks == 3

-----------------------------------------------------------------------------
(* Program constants *)

max8 == 256
max16 == 65536
max24 == 16777216
mask8 == 255
mask16 == 65535
mask24 == 16777215

\* the value `undefined` where a value or an index is expected
Undef == -1

-----------------------------------------------------------------------------
(* JavaScript numbers as <<hi, lo>> pairs *)

Num(n) == <<n \div 65536, n % 65536>>
NumAdd(a, b) == <<a[1] + b[1] + ((a[2] + b[2]) \div 65536), (a[2] + b[2]) % 65536>>
NumNonNeg(a) == a[1] >= 0

\* max32 = 4294967296
max32 == <<65536, 0>>
\* nullPointer = 0 as Pointer
nullPointer == <<0, 0>>

\* ToUint32: what a Uint32Array element keeps of a number stored into it
ToUint32(a) == <<a[1] % 65536, a[2]>>
\* ToInt32: the operand conversion of <<, >>, & and |
ToInt32(a) ==
    LET h == a[1] % 65536
    IN  IF h >= 32768 THEN <<h - 65536, a[2]>> ELSE <<h, a[2]>>

RECURSIVE OrU(_, _)
\* bitwise or of two naturals
OrU(a, b) ==
    IF a = 0 THEN b
    ELSE IF b = 0 THEN a
    ELSE (IF a % 2 = 1 \/ b % 2 = 1 THEN 1 ELSE 0) + 2 * OrU(a \div 2, b \div 2)

RECURSIVE AndU(_, _)
\* bitwise and of two naturals
AndU(a, b) ==
    IF a = 0 \/ b = 0 THEN 0
    ELSE (IF a % 2 = 1 /\ b % 2 = 1 THEN 1 ELSE 0) + 2 * AndU(a \div 2, b \div 2)

\* a << s for s in {8, 16}: the product modulo 2^32, read as signed
JsShl(a, s) ==
    LET x == ToInt32(a)
    IN  IF s = 16
        THEN ToInt32(<<x[2], 0>>)
        ELSE ToInt32(<<(x[1] % 65536) * 256 + ((x[2] * 256) \div 65536),
                       (x[2] * 256) % 65536>>)

\* a >> s for s in {8, 16}: arithmetic shift of the signed 32-bit value;
\* the result fits a plain integer
JsSar(a, s) ==
    LET x == ToInt32(a)
    IN  IF s = 16 THEN x[1] ELSE x[1] * 256 + (x[2] \div 256)

\* a & m for a mask m below 65536: a plain integer
JsAnd(a, m) == AndU(ToInt32(a)[2], m)

\* a | i for an index i below 65536 (undefined converts to 0): signed 32-bit
JsOr(a, i) ==
    LET x == ToInt32(a)
    IN  <<x[1], OrU(x[2], IF i = Undef THEN 0 ELSE i)>>

-----------------------------------------------------------------------------
(* Configuration derived from the block size by the constructor *)

\* mutation: every size above 256 gets the 16-bit word
getWordSize_nolimit(max) == IF max <= max8 THEN 1 ELSE 2

getWordSize(max) == IF max <= max8 THEN 1 ELSE IF max <= max16 THEN 2 ELSE 4

wordSize == getWordSize(blockSize)
shift == IF wordSize = 1 THEN 8 ELSE 16
mask == IF wordSize = 1 THEN mask8 ELSE mask16
\* mutation: the mask lets one more bit of the block id through
blockIdMask_wide == 2 * max24 - 1
blockIdMask == IF wordSize = 1 THEN mask24 ELSE mask16
shiftDownFix == IF wordSize = 1 THEN max24 ELSE max16
shiftUpFix == max32

-----------------------------------------------------------------------------
(* PointerCodec *)

\* mutation: the shifted value is returned without the sign correction
getBlockId_nofix(p) == JsSar(p, shift)

getBlockId(p) ==
    LET b == JsSar(p, shift)
    IN  IF b >= 0 THEN b ELSE shiftDownFix + b

getIndex(p) == JsAnd(p, mask)

getPointer(blockId, index) ==
    LET b == JsShl(Num(blockId), shift)
    IN  JsOr(IF NumNonNeg(b) THEN b ELSE NumAdd(shiftUpFix, b), index)

-----------------------------------------------------------------------------
(* Schema: the field names given to the constructor *)

\* this.names: pointer field i has id i, raw field j has id ~j = -(j+1)
names ==
    [f \in {fieldNames[i] : i \in 1..Len(fieldNames)} \cup
            {rawFieldNames[j] : j \in 1..Len(rawFieldNames)} |->
        IF \E i \in 1..Len(fieldNames) : fieldNames[i] = f
        THEN (CHOOSE i \in 1..Len(fieldNames) : fieldNames[i] = f) - 1
        ELSE -(CHOOSE j \in 1..Len(rawFieldNames) : rawFieldNames[j] = f)]

\* error values
errNone == ""
errPointerAsRaw == "cannot access pointer field as raw uint32"
errRawAsPointer == "cannot access raw uint32 field as pointer"
errUnknownRawField == "unknown raw uint32 field"
errUnknownPointerField == "unknown pointer field"
errReadNull == "cannot read from null pointer"
errWriteNull == "cannot write to null pointer"
errFreeNull == "cannot free null pointer"
errEraseNull == "cannot erase null pointer"
errOutOfMemory == "out of memory"
errNotFinalBlock == "only the final block may be dropped"
\* a member access on blocks[blockId] when that is undefined
errNoBlock == "TypeError: blocks[blockId] is undefined"
\* unbounded recursion of alloc
errStack == "RangeError: Maximum call stack size exceeded"

-----------------------------------------------------------------------------
(* JavaScript arrays and typed arrays *)

Max(a, b) == IF a >= b THEN a ELSE b

\* arr[i] of a plain array: undefined past the end and in holes
ArrGet(arr, i) == IF i # Undef /\ i < Len(arr) THEN arr[i + 1] ELSE Undef

\* arr[i] = v of a plain array: grows the array, leaving holes.
\* With i undefined the store makes a property named "undefined", not an element.
ArrSet(arr, i, v) ==
    IF i = Undef THEN arr
    ELSE [j \in 1..Max(Len(arr), i + 1) |->
            IF j = i + 1 THEN v ELSE IF j <= Len(arr) THEN arr[j] ELSE Undef]

\* arr.pop()
ArrPop(arr) == IF Len(arr) = 0 THEN arr ELSE SubSeq(arr, 1, Len(arr) - 1)

\* what a read outside a typed array gives
UndefNum == <<Undef, Undef>>

\* slab[i] of a Uint32Array
SlabGet(slab, i) == IF i # Undef /\ i < Len(slab) THEN slab[i + 1] ELSE UndefNum

\* slab[i] = v of a Uint32Array: the value modulo 2^32; ignored outside the array
SlabSet(slab, i, v) ==
    IF i # Undef /\ i < Len(slab) THEN [slab EXCEPT ![i + 1] = ToUint32(v)] ELSE slab

\* new Set insertion order: add keeps the place of a member already present
SetAdd(s, b) == IF \E k \in 1..Len(s) : s[k] = b THEN s ELSE Append(s, b)
SetDelete(s, b) == SelectSeq(s, LAMBDA e : e # b)

-----------------------------------------------------------------------------
(* Stack: the free list *)

\* push(n): data[length++] = n; a store past the end of data is dropped
Stack_push(st, n) == Append(st, IF Len(st) < blockSize THEN n ELSE Undef)
\* mutation: pop gives the oldest element
Stack_top_first(st) == st[1]
\* pop(): data[--length]
Stack_top(st) == st[Len(st)]
Stack_pop(st) == SubSeq(st, 1, Len(st) - 1)


-----------------------------------------------------------------------------
(* Blocks *)

Zeros(n) == [i \in 1..n |-> nullPointer]

\* mutation: the root keeps no entry for the null pointer
RootBlock_from0(fslabs, rslabs) ==
    [blockId |-> 0, nextFree |-> 0, firstNextFree |-> 0, values |-> << >>,
     freeList |-> << >>, fields |-> fslabs, rawFields |-> rslabs]

\* the root block as the PointerSet constructor leaves it; slabs come from
\* uninitialised memory with entry 0 set to 0
RootBlock(fslabs, rslabs) ==
    [blockId |-> 0, nextFree |-> 1, firstNextFree |-> 1, values |-> <<Undef>>,
     freeList |-> << >>, fields |-> fslabs, rawFields |-> rslabs]

\* an extension block as the PointerSetBlock constructor leaves it
ExtBlock(id, fslabs, rslabs) ==
    [blockId |-> id, nextFree |-> 0, firstNextFree |-> 0, values |-> << >>,
     freeList |-> << >>, fields |-> fslabs, rawFields |-> rslabs]

\* this.blocks.length
blocksLength == Len(blocks) + elided
\* where block b is kept in blocks; the elided blocks have ids 1..elided
Pos(b) == IF b = 0 THEN 1 ELSE b - elided + 1
\* whether blocks[b] is a block of the model
HasBlock(b) == b = 0 \/ (b > elided /\ b < blocksLength)
Block(b) == blocks[Pos(b)]
\* the ids of the blocks of the model
BlockIds == {0} \cup {elided + k : k \in 1..(Len(blocks) - 1)}

\* mutation: alloc takes a block to have space whatever its nextFree
HasSpace_always(blk) == TRUE

\* the guard of alloc: this.nextFree < this.blockSize || this.freeList.length
HasSpace(blk) == blk.nextFree < blockSize \/ Len(blk.freeList) > 0

RECURSIVE refWrites(_, _)
\* alloc's loop over Object.entries(refs): the writes so far and the first error
refWrites(writes, refs) ==
    IF refs = << >> THEN [err |-> errNone, writes |-> writes]
    ELSE LET k == Head(refs)[1]
             p == Head(refs)[2]
         IN  IF k \notin DOMAIN names
             THEN [err |-> errUnknownPointerField, writes |-> writes]
             ELSE IF names[k] < 0
             THEN [err |-> errRawAsPointer, writes |-> writes]
             ELSE refWrites([writes EXCEPT ![names[k] + 1] = p], Tail(refs))

RECURSIVE rawWrites(_, _)
\* alloc's loop over Object.entries(raw)
rawWrites(writes, raws) ==
    IF raws = << >> THEN [err |-> errNone, writes |-> writes]
    ELSE LET k == Head(raws)[1]
             p == Head(raws)[2]
         IN  IF k \notin DOMAIN names
             THEN [err |-> errUnknownRawField, writes |-> writes]
             ELSE IF names[k] >= 0
             THEN [err |-> errPointerAsRaw, writes |-> writes]
             ELSE rawWrites([writes EXCEPT ![-names[k]] = p], Tail(raws))

\* mutation: the slot is taken but its slabs keep what they held
alloc_block_noinit(blk, avail, value, refs, raws) ==
    LET usePop == Len(blk.freeList) > 0
        index == IF usePop THEN Stack_top(blk.freeList) ELSE blk.nextFree
        fl1 == IF usePop THEN Stack_pop(blk.freeList) ELSE blk.freeList
        nf1 == IF usePop THEN blk.nextFree ELSE blk.nextFree + 1
    IN  [blk |-> [blk EXCEPT !.freeList = fl1, !.nextFree = nf1,
                             !.values = ArrSet(blk.values, index, value)],
         avail |-> IF Len(fl1) = 0 /\ nf1 >= blockSize
                   THEN SetDelete(avail, blk.blockId) ELSE avail,
         ret |-> getPointer(blk.blockId, index),
         err |-> errNone]

\* mutation: the value is not stored
alloc_block_novalue(blk, avail, value, refs, raws) ==
    LET usePop == Len(blk.freeList) > 0
        index == IF usePop THEN Stack_top(blk.freeList) ELSE blk.nextFree
        fl1 == IF usePop THEN Stack_pop(blk.freeList) ELSE blk.freeList
        nf1 == IF usePop THEN blk.nextFree ELSE blk.nextFree + 1
    IN  [blk |-> [blk EXCEPT !.freeList = fl1, !.nextFree = nf1],
         avail |-> IF Len(fl1) = 0 /\ nf1 >= blockSize
                   THEN SetDelete(avail, blk.blockId) ELSE avail,
         ret |-> getPointer(blk.blockId, index),
         err |-> errNone]

\* mutation: the index is read from the free list but not taken off it
alloc_block_nopop(blk, avail, value, refs, raws) ==
    LET usePop == Len(blk.freeList) > 0
        index == IF usePop THEN Stack_top(blk.freeList) ELSE blk.nextFree
        nf1 == IF usePop THEN blk.nextFree ELSE blk.nextFree + 1
    IN  [blk |-> [blk EXCEPT !.nextFree = nf1,
                             !.values = ArrSet(blk.values, index, value)],
         avail |-> IF Len(blk.freeList) = 0 /\ nf1 >= blockSize
                   THEN SetDelete(avail, blk.blockId) ELSE avail,
         ret |-> getPointer(blk.blockId, index),
         err |-> errNone]

\* the body of alloc on a block that has space (index.ts 270-318)
alloc_block(blk, avail, value, refs, raws) ==
    LET usePop == Len(blk.freeList) > 0
        index == IF usePop THEN Stack_top(blk.freeList) ELSE blk.nextFree
        fl1 == IF usePop THEN Stack_pop(blk.freeList) ELSE blk.freeList
        nf1 == IF usePop THEN blk.nextFree ELSE blk.nextFree + 1
        avail1 == IF Len(fl1) = 0 /\ nf1 >= blockSize
                  THEN SetDelete(avail, blk.blockId) ELSE avail
        vals1 == ArrSet(blk.values, index, value)
        pointer == getPointer(blk.blockId, index)
        rw == refWrites(Zeros(Len(blk.fields)), refs)
        fields1 == IF rw.err = errNone
                   THEN [i \in 1..Len(blk.fields) |->
                            SlabSet(blk.fields[i], index, rw.writes[i])]
                   ELSE blk.fields
        ww == IF rw.err = errNone
              THEN rawWrites(Zeros(Len(blk.rawFields)), raws)
              ELSE [err |-> rw.err, writes |-> << >>]
        raws1 == IF ww.err = errNone
                 THEN [i \in 1..Len(blk.rawFields) |->
                          SlabSet(blk.rawFields[i], index, ww.writes[i])]
                 ELSE blk.rawFields
    IN  [blk |-> [blk EXCEPT !.freeList = fl1, !.nextFree = nf1, !.values = vals1,
                             !.fields = fields1, !.rawFields = raws1],
         avail |-> avail1,
         ret |-> IF ww.err = errNone THEN pointer ELSE nullPointer,
         err |-> ww.err]

\* mutation: the already-free check is dropped
free_block_nocheck(blk, avail, index) ==
    IF Len(blk.freeList) + blk.firstNextFree = blk.nextFree - 1
    THEN [blk |-> [blk EXCEPT !.freeList = << >>, !.nextFree = blk.firstNextFree,
                       !.values = IF blk.blockId = 0 THEN <<Undef>> ELSE << >>],
          avail |-> SetAdd(avail, blk.blockId)]
    ELSE IF index = blk.nextFree - 1
    THEN [blk |-> [blk EXCEPT !.nextFree = blk.nextFree - 1,
                       !.values = ArrPop(blk.values)],
          avail |-> SetAdd(avail, blk.blockId)]
    ELSE [blk |-> [blk EXCEPT !.freeList = Stack_push(blk.freeList, index),
                       !.values = ArrSet(blk.values, index, Undef)],
          avail |-> SetAdd(avail, blk.blockId)]

\* mutation: the fields of the freed entry are cleared as well
free_block_clears(blk, avail, index) ==
    LET r == free_block_nocheck(blk, avail, index)
    IN  IF ArrGet(blk.values, index) = Undef
        THEN [blk |-> blk, avail |-> avail]
        ELSE [blk |-> [r.blk EXCEPT
                  !.fields = [i \in 1..Len(blk.fields) |->
                                 SlabSet(blk.fields[i], index, nullPointer)],
                  !.rawFields = [i \in 1..Len(blk.rawFields) |->
                                 SlabSet(blk.rawFields[i], index, nullPointer)]],
              avail |-> r.avail]

\* mutation: the last entry of a block is freed like any other, without the
\* reset of the block
free_block_noreset(blk, avail, index) ==
    IF ArrGet(blk.values, index) = Undef
    THEN [blk |-> blk, avail |-> avail]
    ELSE IF index = blk.nextFree - 1
    THEN [blk |-> [blk EXCEPT !.nextFree = blk.nextFree - 1,
                       !.values = ArrPop(blk.values)],
          avail |-> SetAdd(avail, blk.blockId)]
    ELSE [blk |-> [blk EXCEPT !.freeList = Stack_push(blk.freeList, index),
                       !.values = ArrSet(blk.values, index, Undef)],
          avail |-> SetAdd(avail, blk.blockId)]

\* mutation: an index pushed on the free list keeps its value
free_block_keepsvalue(blk, avail, index) ==
    IF ArrGet(blk.values, index) = Undef
    THEN [blk |-> blk, avail |-> avail]
    ELSE IF Len(blk.freeList) + blk.firstNextFree = blk.nextFree - 1
    THEN [blk |-> [blk EXCEPT !.freeList = << >>, !.nextFree = blk.firstNextFree,
                       !.values = IF blk.blockId = 0 THEN <<Undef>> ELSE << >>],
          avail |-> SetAdd(avail, blk.blockId)]
    ELSE IF index = blk.nextFree - 1
    THEN [blk |-> [blk EXCEPT !.nextFree = blk.nextFree - 1,
                       !.values = ArrPop(blk.values)],
          avail |-> SetAdd(avail, blk.blockId)]
    ELSE [blk |-> [blk EXCEPT !.freeList = Stack_push(blk.freeList, index)],
          avail |-> SetAdd(avail, blk.blockId)]

\* mutation: the last index is pushed on the free list like any other
free_block_nolast(blk, avail, index) ==
    IF ArrGet(blk.values, index) = Undef
    THEN [blk |-> blk, avail |-> avail]
    ELSE IF Len(blk.freeList) + blk.firstNextFree = blk.nextFree - 1
    THEN [blk |-> [blk EXCEPT !.freeList = << >>, !.nextFree = blk.firstNextFree,
                       !.values = IF blk.blockId = 0 THEN <<Undef>> ELSE << >>],
          avail |-> SetAdd(avail, blk.blockId)]
    ELSE [blk |-> [blk EXCEPT !.freeList = Stack_push(blk.freeList, index),
                       !.values = ArrSet(blk.values, index, Undef)],
          avail |-> SetAdd(avail, blk.blockId)]

\* mutation: free does not add the block to the blocks with space
free_block_noavail(blk, avail, index) ==
    IF ArrGet(blk.values, index) = Undef
    THEN [blk |-> blk, avail |-> avail]
    ELSE IF Len(blk.freeList) + blk.firstNextFree = blk.nextFree - 1
    THEN [blk |-> [blk EXCEPT !.freeList = << >>, !.nextFree = blk.firstNextFree,
                       !.values = IF blk.blockId = 0 THEN <<Undef>> ELSE << >>],
          avail |-> avail]
    ELSE IF index = blk.nextFree - 1
    THEN [blk |-> [blk EXCEPT !.nextFree = blk.nextFree - 1,
                       !.values = ArrPop(blk.values)],
          avail |-> avail]
    ELSE [blk |-> [blk EXCEPT !.freeList = Stack_push(blk.freeList, index),
                       !.values = ArrSet(blk.values, index, Undef)],
          avail |-> avail]

\* mutation: freeing the last index also pushes it on the free list
free_block_pushlast(blk, avail, index) ==
    IF ArrGet(blk.values, index) = Undef
    THEN [blk |-> blk, avail |-> avail]
    ELSE IF Len(blk.freeList) + blk.firstNextFree = blk.nextFree - 1
    THEN [blk |-> [blk EXCEPT !.freeList = << >>, !.nextFree = blk.firstNextFree,
                       !.values = IF blk.blockId = 0 THEN <<Undef>> ELSE << >>],
          avail |-> SetAdd(avail, blk.blockId)]
    ELSE IF index = blk.nextFree - 1
    THEN [blk |-> [blk EXCEPT !.freeList = Stack_push(blk.freeList, index),
                       !.nextFree = blk.nextFree - 1,
                       !.values = ArrPop(blk.values)],
          avail |-> SetAdd(avail, blk.blockId)]
    ELSE [blk |-> [blk EXCEPT !.freeList = Stack_push(blk.freeList, index),
                       !.values = ArrSet(blk.values, index, Undef)],
          avail |-> SetAdd(avail, blk.blockId)]

\* the body of free on the owning block (index.ts 356-381)
free_block(blk, avail, index) ==
    IF ArrGet(blk.values, index) = Undef
    THEN [blk |-> blk, avail |-> avail]
    ELSE IF Len(blk.freeList) + blk.firstNextFree = blk.nextFree - 1
    THEN [blk |-> [blk EXCEPT !.freeList = << >>, !.nextFree = blk.firstNextFree,
                       !.values = IF blk.blockId = 0 THEN <<Undef>> ELSE << >>],
          avail |-> SetAdd(avail, blk.blockId)]
    ELSE IF index = blk.nextFree - 1
    THEN [blk |-> [blk EXCEPT !.nextFree = blk.nextFree - 1,
                       !.values = ArrPop(blk.values)],
          avail |-> SetAdd(avail, blk.blockId)]
    ELSE [blk |-> [blk EXCEPT !.freeList = Stack_push(blk.freeList, index),
                       !.values = ArrSet(blk.values, index, Undef)],
          avail |-> SetAdd(avail, blk.blockId)]

\* mutation: erase zeroes the fields of every entry of the block
erase_block_wholeslab(blk, avail, index) ==
    IF ArrGet(blk.values, index) = Undef
    THEN [blk |-> blk, avail |-> avail]
    ELSE LET r == free_block(blk, avail, index)
         IN  [blk |-> [r.blk EXCEPT
                  !.fields = [i \in 1..Len(blk.fields) |->
                                 [j \in 1..Len(blk.fields[i]) |-> nullPointer]],
                  !.rawFields = [i \in 1..Len(blk.rawFields) |->
                                 [j \in 1..Len(blk.rawFields[i]) |-> nullPointer]]],
              avail |-> r.avail]

\* the body of erase on the owning block (index.ts 399-410)
erase_block(blk, avail, index) ==
    IF ArrGet(blk.values, index) = Undef
    THEN [blk |-> blk, avail |-> avail]
    ELSE LET r == free_block(blk, avail, index)
         IN  [blk |-> [r.blk EXCEPT
                  !.fields = [i \in 1..Len(blk.fields) |->
                                 SlabSet(blk.fields[i], index, nullPointer)],
                  !.rawFields = [i \in 1..Len(blk.rawFields) |->
                                 SlabSet(blk.rawFields[i], index, nullPointer)]],
              avail |-> r.avail]

\* mutation: wipeBlock clears the slabs and keeps the entries
wipe_block_slabsonly(blk, avail) ==
    [blk |-> [blk EXCEPT
         !.fields = [i \in 1..Len(blk.fields) |->
                        [j \in 1..Len(blk.fields[i]) |-> nullPointer]],
         !.rawFields = [i \in 1..Len(blk.rawFields) |->
                        [j \in 1..Len(blk.rawFields[i]) |-> nullPointer]]],
     avail |-> SetAdd(avail, blk.blockId)]

\* mutation: wipeBlock leaves the raw-field slabs as they are
wipe_block_keepsraw(blk, avail) ==
    [blk |-> [blk EXCEPT
         !.fields = [i \in 1..Len(blk.fields) |->
                        [j \in 1..Len(blk.fields[i]) |-> nullPointer]],
         !.values = IF blk.blockId = 0 THEN <<Undef>> ELSE << >>,
         !.freeList = << >>,
         !.nextFree = blk.firstNextFree],
     avail |-> SetAdd(avail, blk.blockId)]

\* wipeBlock on a block (index.ts 416-431)
wipe_block(blk, avail) ==
    [blk |-> [blk EXCEPT
         !.fields = [i \in 1..Len(blk.fields) |->
                        [j \in 1..Len(blk.fields[i]) |-> nullPointer]],
         !.rawFields = [i \in 1..Len(blk.rawFields) |->
                        [j \in 1..Len(blk.rawFields[i]) |-> nullPointer]],
         !.values = IF blk.blockId = 0 THEN <<Undef>> ELSE << >>,
         !.freeList = << >>,
         !.nextFree = blk.firstNextFree],
     avail |-> SetAdd(avail, blk.blockId)]

-----------------------------------------------------------------------------
(* Introspection *)

entryCount(b) == Block(b).nextFree - Len(Block(b).freeList)
available(b) == blockSize - entryCount(b)

RECURSIVE Sum(_, _)
\* the sum of F over the block ids in S
Sum(F(_), S) ==
    IF S = {} THEN 0 ELSE LET b == CHOOSE x \in S : TRUE IN F(b) + Sum(F, S \ {b})

\* every elided block is full: entryCount blockSize, available 0
size == Sum(entryCount, BlockIds) + elided * blockSize
totalAvailable == Sum(available, BlockIds)
blocksCount == blocksLength


-----------------------------------------------------------------------------
(* Arena operations, called on the root block.  Each gives the outcome of   *)
(* the call in the current state: the blocks and the available set it       *)
(* leaves, and what it returns or throws.                                   *)

Out(bs, av, ret, err) == [blocks |-> bs, blocksAvail |-> av, ret |-> ret, err |-> err]
Same(ret, err) == Out(blocks, blocksAvail, ret, err)
InBlock(b, r, ret, err) == Out([blocks EXCEPT ![Pos(b)] = r.blk], r.avail, ret, err)

\* whether alloc has to make a new block
NeedsNewBlock == ~HasSpace(Block(0)) /\ blocksAvail = << >>

\* mutation: the blocks of blocksAvail are not looked at
alloc_rootonly(value, refs, raws, fslabs, rslabs) ==
    IF HasSpace(Block(0))
    THEN LET r == alloc_block(Block(0), blocksAvail, value, refs, raws)
         IN  InBlock(0, r, r.ret, r.err)
    ELSE LET id == blocksLength
             r == alloc_block(ExtBlock(id, fslabs, rslabs),
                              SetAdd(blocksAvail, id), value, refs, raws)
         IN  Out(Append(blocks, r.blk), r.avail, r.ret, r.err)

\* mutation: the first block of blocksAvail is tried before the root
alloc_availfirst(value, refs, raws, fslabs, rslabs) ==
    IF blocksAvail # << >> /\ HasSpace(Block(Head(blocksAvail)))
    THEN LET b == Head(blocksAvail)
             r == alloc_block(Block(b), blocksAvail, value, refs, raws)
         IN  InBlock(b, r, r.ret, r.err)
    ELSE IF HasSpace(Block(0))
    THEN LET r == alloc_block(Block(0), blocksAvail, value, refs, raws)
         IN  InBlock(0, r, r.ret, r.err)
    ELSE LET id == blocksLength
             r == alloc_block(ExtBlock(id, fslabs, rslabs),
                              SetAdd(blocksAvail, id), value, refs, raws)
         IN  Out(Append(blocks, r.blk), r.avail, r.ret, r.err)

\* alloc (index.ts 267-336, and the PointerSetBlock constructor 837-881);
\* fslabs and rslabs are the uninitialised slabs a new block would get
alloc(value, refs, raws, fslabs, rslabs) ==
    IF HasSpace(Block(0))
    THEN LET r == alloc_block(Block(0), blocksAvail, value, refs, raws)
         IN  InBlock(0, r, r.ret, r.err)
    ELSE IF blocksAvail # << >>
    THEN LET b == Head(blocksAvail)
         IN  IF HasSpace(Block(b))
             THEN LET r == alloc_block(Block(b), blocksAvail, value, refs, raws)
                  IN  InBlock(b, r, r.ret, r.err)
             \* b.alloc finds b first in blocksAvail again, without end
             ELSE Same(nullPointer, errStack)
    ELSE LET id == blocksLength
         IN  IF id # AndU(id, blockIdMask)
             THEN Same(nullPointer, errOutOfMemory)
             ELSE LET r == alloc_block(ExtBlock(id, fslabs, rslabs),
                                       SetAdd(blocksAvail, id), value, refs, raws)
                  IN  Out(Append(blocks, r.blk), r.avail, r.ret, r.err)

free(pointer) ==
    IF pointer = nullPointer THEN Same(Undef, errFreeNull)
    ELSE LET b == getBlockId(pointer)
         IN  IF ~HasBlock(b) THEN Same(Undef, errNoBlock)
             ELSE InBlock(b, free_block(Block(b), blocksAvail, getIndex(pointer)),
                          Undef, errNone)

erase(pointer) ==
    IF pointer = nullPointer THEN Same(Undef, errEraseNull)
    ELSE LET b == getBlockId(pointer)
         IN  IF ~HasBlock(b) THEN Same(Undef, errNoBlock)
             ELSE InBlock(b, erase_block(Block(b), blocksAvail, getIndex(pointer)),
                          Undef, errNone)

\* ref(pointer, field)
refGet(pointer, field) ==
    IF pointer = nullPointer THEN Same(nullPointer, errReadNull)
    ELSE LET b == getBlockId(pointer)
             index == getIndex(pointer)
         IN  IF field \in DOMAIN names /\ names[field] < 0
             THEN Same(nullPointer, errRawAsPointer)
             ELSE IF ~HasBlock(b) THEN Same(nullPointer, errNoBlock)
             ELSE IF field \notin DOMAIN names
             THEN Same(nullPointer, errUnknownPointerField)
             ELSE Same(SlabGet(Block(b).fields[names[field] + 1], index), errNone)

\* mutation: the field name is looked at before the pointer
refSet_fieldfirst(pointer, field, target) ==
    IF field \in DOMAIN names /\ names[field] < 0
    THEN Same(nullPointer, errRawAsPointer)
    ELSE IF pointer = nullPointer THEN Same(nullPointer, errWriteNull)
    ELSE LET b == getBlockId(pointer)
             index == getIndex(pointer)
         IN  IF ~HasBlock(b) THEN Same(nullPointer, errNoBlock)
             ELSE IF field \notin DOMAIN names
             THEN Same(nullPointer, errUnknownPointerField)
             ELSE Out([blocks EXCEPT ![Pos(b)].fields[names[field] + 1] =
                           SlabSet(@, index, target)],
                      blocksAvail, target, errNone)

\* mutation: the target is written to the raw fields of the entry as well
refSet_bothkinds(pointer, field, target) ==
    IF pointer = nullPointer THEN Same(nullPointer, errWriteNull)
    ELSE LET b == getBlockId(pointer)
             index == getIndex(pointer)
         IN  IF field \in DOMAIN names /\ names[field] < 0
             THEN Same(nullPointer, errRawAsPointer)
             ELSE IF ~HasBlock(b) THEN Same(nullPointer, errNoBlock)
             ELSE IF field \notin DOMAIN names
             THEN Same(nullPointer, errUnknownPointerField)
             ELSE Out([blocks EXCEPT
                          ![Pos(b)].fields[names[field] + 1] =
                              SlabSet(@, index, target),
                          ![Pos(b)].rawFields =
                              [i \in 1..Len(@) |-> SlabSet(@[i], index, target)]],
                      blocksAvail, target, errNone)

\* ref(pointer, field, target)
refSet(pointer, field, target) ==
    IF pointer = nullPointer THEN Same(nullPointer, errWriteNull)
    ELSE LET b == getBlockId(pointer)
             index == getIndex(pointer)
         IN  IF field \in DOMAIN names /\ names[field] < 0
             THEN Same(nullPointer, errRawAsPointer)
             ELSE IF ~HasBlock(b) THEN Same(nullPointer, errNoBlock)
             ELSE IF field \notin DOMAIN names
             THEN Same(nullPointer, errUnknownPointerField)
             ELSE Out([blocks EXCEPT ![Pos(b)].fields[names[field] + 1] =
                           SlabSet(@, index, target)],
                      blocksAvail, target, errNone)

\* raw(pointer, field)
rawGet(pointer, field) ==
    IF pointer = nullPointer THEN Same(nullPointer, errReadNull)
    ELSE LET b == getBlockId(pointer)
             index == getIndex(pointer)
         IN  IF field \in DOMAIN names /\ names[field] >= 0
             THEN Same(nullPointer, errPointerAsRaw)
             ELSE IF ~HasBlock(b) THEN Same(nullPointer, errNoBlock)
             ELSE IF field \notin DOMAIN names
             THEN Same(nullPointer, errUnknownRawField)
             ELSE Same(SlabGet(Block(b).rawFields[-names[field]], index), errNone)

\* mutation: the low 16 bits of the number are stored
rawSet_low16(pointer, field, val) ==
    IF pointer = nullPointer THEN Same(nullPointer, errWriteNull)
    ELSE LET b == getBlockId(pointer)
             index == getIndex(pointer)
         IN  IF field \in DOMAIN names /\ names[field] >= 0
             THEN Same(nullPointer, errPointerAsRaw)
             ELSE IF ~HasBlock(b) THEN Same(nullPointer, errNoBlock)
             ELSE IF field \notin DOMAIN names
             THEN Same(nullPointer, errUnknownRawField)
             ELSE Out([blocks EXCEPT ![Pos(b)].rawFields[-names[field]] =
                           SlabSet(@, index, <<0, val[2]>>)],
                      blocksAvail, val, errNone)

\* mutation: a name that is no raw field is passed over
rawSet_lenient(pointer, field, val) ==
    IF pointer = nullPointer THEN Same(nullPointer, errWriteNull)
    ELSE IF field \notin DOMAIN names \/ names[field] >= 0
    THEN Same(val, errNone)
    ELSE Out([blocks EXCEPT ![Pos(getBlockId(pointer))].rawFields[-names[field]] =
                  SlabSet(@, getIndex(pointer), val)],
             blocksAvail, val, errNone)

\* raw(pointer, field, val)
rawSet(pointer, field, val) ==
    IF pointer = nullPointer THEN Same(nullPointer, errWriteNull)
    ELSE LET b == getBlockId(pointer)
             index == getIndex(pointer)
         IN  IF field \in DOMAIN names /\ names[field] >= 0
             THEN Same(nullPointer, errPointerAsRaw)
             ELSE IF ~HasBlock(b) THEN Same(nullPointer, errNoBlock)
             ELSE IF field \notin DOMAIN names
             THEN Same(nullPointer, errUnknownRawField)
             ELSE Out([blocks EXCEPT ![Pos(b)].rawFields[-names[field]] =
                           SlabSet(@, index, val)],
                      blocksAvail, val, errNone)

\* value(pointer)
valueGet(pointer) ==
    IF pointer = nullPointer THEN Same(Undef, errReadNull)
    ELSE LET b == getBlockId(pointer)
         IN  IF ~HasBlock(b) THEN Same(Undef, errNoBlock)
             ELSE Same(ArrGet(Block(b).values, getIndex(pointer)), errNone)

\* value(pointer, val)
valueSet(pointer, val) ==
    IF pointer = nullPointer THEN Same(Undef, errWriteNull)
    ELSE LET b == getBlockId(pointer)
         IN  IF ~HasBlock(b) THEN Same(Undef, errNoBlock)
             ELSE Out([blocks EXCEPT ![Pos(b)].values =
                           ArrSet(@, getIndex(pointer), val)],
                      blocksAvail, val, errNone)

\* mutation: the fields are read whether or not the entry holds a value
refAllGet_stale(pointer) ==
    IF pointer = nullPointer THEN Same(<< >>, errReadNull)
    ELSE LET b == getBlockId(pointer)
             index == getIndex(pointer)
         IN  IF ~HasBlock(b) THEN Same(<< >>, errNoBlock)
             ELSE Same([i \in 1..Len(fieldNames) |->
                           <<fieldNames[i], SlabGet(Block(b).fields[i], index)>>],
                       errNone)

\* refAll(pointer)
refAllGet(pointer) ==
    IF pointer = nullPointer THEN Same(<< >>, errReadNull)
    ELSE LET b == getBlockId(pointer)
             index == getIndex(pointer)
         IN  IF ~HasBlock(b) THEN Same(<< >>, errNoBlock)
             ELSE IF ArrGet(Block(b).values, index) = Undef
             THEN Same([i \in 1..Len(fieldNames) |-> <<fieldNames[i], nullPointer>>],
                       errNone)
             ELSE Same([i \in 1..Len(fieldNames) |->
                           <<fieldNames[i], SlabGet(Block(b).fields[i], index)>>],
                       errNone)

RECURSIVE refAllWrites(_, _, _)
\* refAll's loop over Object.entries(refs): the slabs so far and the first error
refAllWrites(fields, index, refs) ==
    IF refs = << >> THEN [err |-> errNone, fields |-> fields]
    ELSE LET k == Head(refs)[1]
             p == Head(refs)[2]
         IN  IF k \notin DOMAIN names
             THEN [err |-> errUnknownPointerField, fields |-> fields]
             ELSE IF names[k] < 0
             THEN [err |-> errRawAsPointer, fields |-> fields]
             ELSE refAllWrites([fields EXCEPT ![names[k] + 1] = SlabSet(@, index, p)],
                               index, Tail(refs))

\* refAll(pointer, refs)
refAllSet(pointer, refs) ==
    IF pointer = nullPointer THEN Same(refs, errWriteNull)
    ELSE LET b == getBlockId(pointer)
             index == getIndex(pointer)
         IN  IF ~HasBlock(b) THEN Same(refs, errNoBlock)
             ELSE IF ArrGet(Block(b).values, index) = Undef
             THEN Same(refs, errNone)
             ELSE LET w == refAllWrites(Block(b).fields, index, refs)
                  IN  Out([blocks EXCEPT ![Pos(b)].fields = w.fields],
                          blocksAvail, refs, w.err)

\* rawAll(pointer)
rawAllGet(pointer) ==
    IF pointer = nullPointer THEN Same(<< >>, errReadNull)
    ELSE LET b == getBlockId(pointer)
             index == getIndex(pointer)
         IN  IF ~HasBlock(b) THEN Same(<< >>, errNoBlock)
             ELSE IF ArrGet(Block(b).values, index) = Undef
             THEN Same([i \in 1..Len(rawFieldNames) |->
                           <<rawFieldNames[i], nullPointer>>], errNone)
             ELSE Same([i \in 1..Len(rawFieldNames) |->
                           <<rawFieldNames[i], SlabGet(Block(b).rawFields[i], index)>>],
                       errNone)

RECURSIVE rawAllWrites(_, _, _)
\* rawAll's loop over Object.entries(raws)
rawAllWrites(rawFields, index, raws) ==
    IF raws = << >> THEN [err |-> errNone, rawFields |-> rawFields]
    ELSE LET k == Head(raws)[1]
             n == Head(raws)[2]
         IN  IF k \notin DOMAIN names
             THEN [err |-> errUnknownRawField, rawFields |-> rawFields]
             ELSE IF names[k] >= 0
             THEN [err |-> errPointerAsRaw, rawFields |-> rawFields]
             ELSE rawAllWrites([rawFields EXCEPT ![-names[k]] = SlabSet(@, index, n)],
                               index, Tail(raws))

\* rawAll(pointer, raws)
rawAllSet(pointer, raws) ==
    IF pointer = nullPointer THEN Same(raws, errWriteNull)
    ELSE LET b == getBlockId(pointer)
             index == getIndex(pointer)
         IN  IF ~HasBlock(b) THEN Same(raws, errNoBlock)
             ELSE IF ArrGet(Block(b).values, index) = Undef
             THEN Same(raws, errNone)
             ELSE LET w == rawAllWrites(Block(b).rawFields, index, raws)
                  IN  Out([blocks EXCEPT ![Pos(b)].rawFields = w.rawFields],
                          blocksAvail, raws, w.err)

\* blocks[b].wipeBlock()
wipeBlock(b) == InBlock(b, wipe_block(Block(b), blocksAvail), Undef, errNone)

\* mutation: drop does not look at the place of the block
drop_anyblock(b) ==
    IF b = 0 THEN wipeBlock(0)
    ELSE Out(SubSeq(blocks, 1, Len(blocks) - 1), SetDelete(blocksAvail, b),
             Undef, errNone)

\* blocks[b].drop() (index.ts 630-640)
drop(b) ==
    IF b # blocksLength - 1 THEN Same(Undef, errNotFinalBlock)
    ELSE IF b = 0 THEN wipeBlock(0)
    ELSE Out(SubSeq(blocks, 1, Len(blocks) - 1), SetDelete(blocksAvail, b),
             Undef, errNone)

RECURSIVE dropEmptyFrom(_, _, _)
\* the loop of dropEmpty (index.ts 645-652) from the block kept at bs[k]
\* downward; the elided blocks are full and are passed over
dropEmptyFrom(k, bs, av) ==
    IF k <= 1 THEN Out(bs, av, Undef, errNone)
    ELSE IF bs[k].nextFree - Len(bs[k].freeList) = 0
    THEN IF k # Len(bs)
         THEN Out(bs, av, Undef, errNotFinalBlock)
         ELSE dropEmptyFrom(k - 1, SubSeq(bs, 1, Len(bs) - 1),
                            SetDelete(av, bs[k].blockId))
    ELSE dropEmptyFrom(k - 1, bs, av)

dropEmpty == dropEmptyFrom(Len(blocks), blocks, blocksAvail)


-----------------------------------------------------------------------------
(* Inputs of the calls *)

\* the schema of the specifications with fields
FieldNames == <<"x">>
RawFieldNames == <<"r">>

\* payloads
Values == {1}
\* what uninitialised slab memory may hold
GarbageSamples == {Num(0), Num(1)}
\* numbers stored into raw fields
RawSamples == {Num(0), Num(1)}
\* field names: a pointer field, a raw field, a name not in the schema
FieldInputs == {"x", "r", "asdf"}
\* refs objects, as their Object.entries: well-formed, and with a bad key
GoodRefs == {<< >>, << <<"x", Num(1)>> >>}
BadRefs == {<< <<"r", Num(1)>> >>, << <<"asdf", Num(1)>> >>}
\* raws objects
GoodRaws == {<< >>, << <<"r", Num(1)>> >>}
BadRaws == {<< <<"x", Num(1)>> >>, << <<"asdf", Num(1)>> >>}
\* the (refs, raws) arguments of alloc
AllocArgs ==
    (GoodRefs \X GoodRaws) \cup (BadRefs \X {<< >>}) \cup ({<< >>} \X BadRaws)

\* pointers a caller can pass: the null pointer and those alloc returned
Ptrs == issued \cup {nullPointer}
\* pointers a caller stores into pointer fields
TargetSamples == {Num(1)}
Targets == {nullPointer} \cup (issued \cap TargetSamples)
\* the pointers whose entry holds a value
Live(p) == p # nullPointer /\ HasBlock(getBlockId(p))
              /\ ArrGet(Block(getBlockId(p)).values, getIndex(p)) # Undef
LivePtrs == {p \in issued : Live(p)}

\* slabs of freshly allocated memory
FreshSlabs(count) == [1..count -> [1..blockSize -> GarbageSamples]]
\* the root's slabs: entry 0 is set to 0 by the constructor
RootSlabs(count) == {s \in FreshSlabs(count) : \A i \in 1..count : s[i][1] = nullPointer}
\* the slabs alloc may get for a new block; one choice when it makes none
NewSlabs(count) ==
    IF NeedsNewBlock THEN FreshSlabs(count)
    ELSE {[i \in 1..count |-> [j \in 1..blockSize |-> nullPointer]]}

-----------------------------------------------------------------------------
(* The state machine *)

\* new PointerSet(fields, blockSize, rawFields)
New(fields, bs, rawFields) ==
    /\ blockSize = bs
    /\ fieldNames = fields
    /\ rawFieldNames = rawFields
    /\ elided = 0
    /\ \E fs \in RootSlabs(Len(fields)), rs \in RootSlabs(Len(rawFields)) :
          blocks = <<RootBlock(fs, rs)>>
    /\ blocksAvail = <<0>>
    /\ issued = {}
    /\ last = [op |-> "new", err |-> errNone]

\* the free list is followed up to one entry past its backing array
StackBound(bs) == \A i \in 1..Len(bs) : Len(bs[i].freeList) <= blockSize + 1

\* a call with outcome out takes place
Do(name, out) ==
    /\ StackBound(out.blocks)
    /\ blocks' = out.blocks
    /\ blocksAvail' = out.blocksAvail
    /\ last' = [op |-> name, err |-> out.err]
    /\ UNCHANGED config

\* alloc, when a new block gets the slabs fs and rs
AllocWith(value, refs, raws, fs, rs) ==
    LET out == alloc(value, refs, raws, fs, rs)
    IN  /\ Do("alloc", out)
        /\ issued' = IF out.err = errNone THEN issued \cup {out.ret} ELSE issued

\* alloc in an arena that is not grown past max blocks
AllocUpTo(max, value, refs, raws) ==
    /\ NeedsNewBlock => Len(blocks) < max
    /\ \E fs \in NewSlabs(Len(fieldNames)), rs \in NewSlabs(Len(rawFieldNames)) :
          AllocWith(value, refs, raws, fs, rs)

Alloc(value, refs, raws) == AllocUpTo(MaxBlocks, value, refs, raws)

Free(p) == Do("free", free(p)) /\ UNCHANGED issued
Erase(p) == Do("erase", erase(p)) /\ UNCHANGED issued
RefGet(p, f) == Do("ref", refGet(p, f)) /\ UNCHANGED issued
RefSet(p, f, t) == Do("refSet", refSet(p, f, t)) /\ UNCHANGED issued
RawGet(p, f) == Do("raw", rawGet(p, f)) /\ UNCHANGED issued
RawSet(p, f, n) == Do("rawSet", rawSet(p, f, n)) /\ UNCHANGED issued
ValueGet(p) == Do("value", valueGet(p)) /\ UNCHANGED issued
ValueSet(p, v) == Do("valueSet", valueSet(p, v)) /\ UNCHANGED issued
RefAllGet(p) == Do("refAll", refAllGet(p)) /\ UNCHANGED issued
RefAllSet(p, refs) == Do("refAllSet", refAllSet(p, refs)) /\ UNCHANGED issued
RawAllGet(p) == Do("rawAll", rawAllGet(p)) /\ UNCHANGED issued
RawAllSet(p, raws) == Do("rawAllSet", rawAllSet(p, raws)) /\ UNCHANGED issued
WipeBlock(b) == Do("wipeBlock", wipeBlock(b)) /\ UNCHANGED issued
Drop(b) == Do("drop", drop(b)) /\ UNCHANGED issued
DropEmpty == Do("dropEmpty", dropEmpty) /\ UNCHANGED issued

-----------------------------------------------------------------------------
(* Spec: an arena without fields, any call with any pointer alloc returned *)

Init == New(<< >>, BlockSize, << >>)

Next ==
    \/ \E v \in Values, a \in AllocArgs : Alloc(v, a[1], a[2])
    \/ \E p \in Ptrs : Free(p)
    \/ \E p \in Ptrs : Erase(p)
    \/ \E p \in Ptrs : ValueGet(p)
    \/ \E p \in Ptrs, v \in Values : ValueSet(p, v)
    \/ \E b \in BlockIds : WipeBlock(b)
    \/ \E b \in BlockIds : Drop(b)
    \/ DropEmpty

Spec == Init /\ [][Next]_vars

-----------------------------------------------------------------------------
(* SpecF: an arena with a pointer field and a raw field, and the calls that *)
(* read and write single fields                                            *)

InitF == New(FieldNames, BlockSize, RawFieldNames)

NextF ==
    \/ \E v \in Values, a \in AllocArgs : Alloc(v, a[1], a[2])
    \/ \E p \in Ptrs : Free(p)
    \/ \E p \in Ptrs : Erase(p)
    \/ \E p \in Ptrs, f \in FieldInputs : RefGet(p, f)
    \/ \E p \in Ptrs, f \in FieldInputs, t \in Targets : RefSet(p, f, t)
    \/ \E p \in Ptrs, f \in FieldInputs : RawGet(p, f)
    \/ \E p \in Ptrs, f \in FieldInputs, n \in RawSamples : RawSet(p, f, n)

SpecF == InitF /\ [][NextF]_vars

-----------------------------------------------------------------------------
(* SpecNull: the same arena, filled and emptied by alloc and free, and      *)
(* every call that takes a pointer made with nullPointer                    *)

NextNull ==
    \/ \E v \in Values, a \in GoodRefs \X GoodRaws : Alloc(v, a[1], a[2])
    \/ \E p \in issued : Free(p)
    \/ Free(nullPointer)
    \/ Erase(nullPointer)
    \/ \E f \in FieldInputs : RefGet(nullPointer, f)
    \/ \E f \in FieldInputs, t \in Targets : RefSet(nullPointer, f, t)
    \/ \E f \in FieldInputs : RawGet(nullPointer, f)
    \/ \E f \in FieldInputs, n \in RawSamples : RawSet(nullPointer, f, n)
    \/ ValueGet(nullPointer)
    \/ \E v \in Values : ValueSet(nullPointer, v)
    \/ RefAllGet(nullPointer)
    \/ \E refs \in GoodRefs \cup BadRefs : RefAllSet(nullPointer, refs)
    \/ RawAllGet(nullPointer)
    \/ \E raws \in GoodRaws \cup BadRaws : RawAllSet(nullPointer, raws)

SpecNull == InitF /\ [][NextNull]_vars

-----------------------------------------------------------------------------
(* SpecG: a single block with fields, any call with any pointer alloc       *)
(* returned; the caller does not ask for more than the root block holds     *)

InitG == New(FieldNames, ScenarioBlockSize, RawFieldNames)

NextG ==
    \/ \E v \in Values, a \in AllocArgs : ~NeedsNewBlock /\ Alloc(v, a[1], a[2])
    \/ \E p \in Ptrs : Free(p)
    \/ \E p \in Ptrs : Erase(p)
    \/ \E p \in Ptrs, v \in Values : ValueSet(p, v)

SpecG == InitG /\ [][NextG]_vars

-----------------------------------------------------------------------------
(* SpecAllocFree: allocate some entries, then free each of them once *)

InitAllocFree == New(<< >>, ScenarioBlockSize, << >>)

NextAllocFree ==
    \/ \E v \in Values :
          (\A p \in issued : Live(p)) /\ AllocUpTo(ScenarioBlocks, v, << >>, << >>)
    \/ \E p \in LivePtrs : Free(p)

SpecAllocFree == InitAllocFree /\ [][NextAllocFree]_vars

-----------------------------------------------------------------------------
(* SpecHigh: an arena with a pointer field that has grown up to the first   *)
(* block id whose shift sets bit 31: the root and the blocks after it are   *)
(* full, and the next alloc makes the block with that id                    *)

\* the first block id with blockId << 8 negative
SignBlockId == max24 \div 2

\* the root block with every entry taken
FullRoot(fslabs, rslabs) ==
    [RootBlock(fslabs, rslabs) EXCEPT
        !.nextFree = blockSize,
        !.values = [i \in 1..blockSize |-> IF i = 1 THEN Undef ELSE 1]]

InitHigh ==
    /\ blockSize = BlockSize
    /\ fieldNames = FieldNames
    /\ rawFieldNames = << >>
    /\ elided = SignBlockId - 1
    /\ \E fs \in RootSlabs(Len(FieldNames)) : blocks = <<FullRoot(fs, << >>)>>
    /\ blocksAvail = << >>
    /\ issued = {getPointer(0, i) : i \in 1..(BlockSize - 1)}
    /\ last = [op |-> "new", err |-> errNone]

NextHigh ==
    \/ \E v \in Values : Alloc(v, << >>, << >>)
    \/ \E p \in Ptrs : Free(p)
    \/ \E p \in Ptrs, f \in FieldInputs : RefGet(p, f)
    \/ \E p \in Ptrs, f \in FieldInputs, t \in Ptrs : RefSet(p, f, t)

SpecHigh == InitHigh /\ [][NextHigh]_vars

-----------------------------------------------------------------------------
(* SpecCodec: getPointer applied to sampled block ids and indexes, for the *)
(* block sizes at both ends of each word size                              *)

CodecBlockSizes == {2, max8, max8 + 1, max16}
\* block ids around the values whose shift reaches bit 31
BlockIdSamples ==
    {0, 1, (max16 \div 2) - 1, max16 \div 2, max16 - 1, max16,
     (max24 \div 2) - 1, max24 \div 2, max24 - 1}
IndexSamples == {0, 1, (max8 \div 2) - 1, max8 \div 2, max8 - 1, max8,
                 (max16 \div 2) - 1, max16 \div 2, max16 - 1}
\* the block ids the PointerSetBlock constructor admits (index.ts 858-862)
ValidBlockId(b) == b = AndU(b, blockIdMask)
\* the indexes the index bits of a pointer can hold
ValidIndex(i) == i = AndU(i, mask)

InitCodec == \E bs \in CodecBlockSizes : New(<< >>, bs, << >>)

GetPointer(b, i) ==
    /\ ValidBlockId(b) /\ ValidIndex(i)
    /\ last' = [op |-> "getPointer", ptr |-> getPointer(b, i), err |-> errNone,
                blockId |-> b, index |-> i]
    /\ UNCHANGED <<config, blocks, blocksAvail, issued>>

NextCodec == \E b \in BlockIdSamples, i \in IndexSamples : GetPointer(b, i)

SpecCodec == InitCodec /\ [][NextCodec]_vars

\* whether shifting block id b left sets bit 31
SetsSignBit(b) == ~NumNonNeg(JsShl(Num(b), shift))

-----------------------------------------------------------------------------
(* Properties of the pointer codec *)

\* C4: decoding the pointer getPointer made of a valid block id and index gives
\* back the block id and the index, for both word sizes and also when the
\* shifted block id sets bit 31.
C4_RoundTrip ==
    last.op = "getPointer" =>
        /\ getBlockId(last.ptr) = last.blockId
        /\ getIndex(last.ptr) = last.index

\* a pointer was made of a block id whose shift sets bit 31, with a nonzero
\* index, in the 16-bit word size
C4_Witness ==
    /\ last.op = "getPointer"
    /\ wordSize = 2
    /\ SetsSignBit(last.blockId)
    /\ last.index > 0
    /\ getBlockId(last.ptr) = last.blockId

\* C5: every pointer getPointer produces is in 0 .. 2^32 - 1.
C5_PointerIsUint32 ==
    last.op = "getPointer" =>
        NumNonNeg(last.ptr) /\ last.ptr[1] < max32[1]

-----------------------------------------------------------------------------
(* Properties of alloc and free in an arena without fields (Spec) *)

\* no free list holds more entries than its backing array has room for
StacksFit == \A k \in 1..Len(blocks) : Len(blocks[k].freeList) <= blockSize

\* the slot of p is free: its index is in the free list or not below nextFree
SlotFree(p) ==
    LET blk == Block(getBlockId(p))
        i == getIndex(p)
    IN  (\E k \in 1..Len(blk.freeList) : blk.freeList[k] = i) \/ i >= blk.nextFree

\* values are held by the occupied entries and by no other: an index is
\* occupied when it is below nextFree and not in the free list
Occupancy ==
    \A k \in 1..Len(blocks) :
        LET blk == blocks[k]
            fl == blk.freeList
        IN  /\ Len(blk.values) <= Max(blk.nextFree, blk.firstNextFree)
            /\ \A j \in 1..Len(fl) :
                  fl[j] # Undef /\ fl[j] >= blk.firstNextFree /\ fl[j] < blk.nextFree
            /\ \A i, j \in 1..Len(fl) : i # j => fl[i] # fl[j]
            /\ \A i \in 0..(blockSize - 1) :
                  ArrGet(blk.values, i) # Undef <=>
                      /\ i >= blk.firstNextFree /\ i < blk.nextFree
                      /\ \A j \in 1..Len(fl) : fl[j] # i

\* C1 as stated: whenever alloc(v) returns, the pointer is not nullPointer,
\* value(p) is v and size() has grown by exactly one.
C1_AllocPost ==
    [][last'.op = "alloc" =>
       \A v \in Values, a \in AllocArgs :
         \A fs \in NewSlabs(Len(fieldNames)), rs \in NewSlabs(Len(rawFieldNames)) :
            LET out == alloc(v, a[1], a[2], fs, rs)
            IN  AllocWith(v, a[1], a[2], fs, rs) /\ out.err = errNone =>
                  /\ out.ret # nullPointer
                  /\ \E q \in {out.ret} : valueGet(q)' = Same(v, errNone)'
                  /\ size' = size + 1]_vars

\* C1, amended: the same whenever alloc(v) returns in a state where no free
\* list has been pushed past its capacity of blockSize entries.
C1_AllocPostFit ==
    [][last'.op = "alloc" =>
       \A v \in Values, a \in AllocArgs :
         \A fs \in NewSlabs(Len(fieldNames)), rs \in NewSlabs(Len(rawFieldNames)) :
            LET out == alloc(v, a[1], a[2], fs, rs)
            IN  StacksFit /\ AllocWith(v, a[1], a[2], fs, rs) /\ out.err = errNone =>
                  /\ out.ret # nullPointer
                  /\ \E q \in {out.ret} : valueGet(q)' = Same(v, errNone)'
                  /\ size' = size + 1]_vars

\* alloc has returned the last free entry of an arena of two blocks, and
\* every pointer it gave out holds its value
C1_Witness ==
    /\ last = [op |-> "alloc", err |-> errNone]
    /\ StacksFit
    /\ Len(blocks) = MaxBlocks
    /\ totalAvailable = 0
    /\ \A p \in issued : Live(p)

\* C6 as stated: free(p), and erase(p), on a non-null pointer whose slot is
\* already free (index in the free list or not below nextFree) changes no
\* block; and after free(p) a second free(p) changes nothing, likewise erase.
C6_FreeOfFreeSlot ==
    [][last'.op \in {"free", "erase"} =>
       \A p \in Ptrs \ {nullPointer} :
          HasBlock(getBlockId(p)) /\ (Free(p) \/ Erase(p)) =>
              /\ SlotFree(p) => UNCHANGED blocks
              /\ \E q \in {p} : free(q)'.blocks = blocks' /\ erase(q)'.blocks = blocks'
      ]_vars

\* C6, amended: free(p), and erase(p), on a non-null pointer whose entry holds
\* no value changes no block.  In a state where values are held by the
\* occupied entries only, that is every pointer whose slot is free, and after
\* free(p) or erase(p) a second free(p) or erase(p) changes nothing.
C6_FreeOfNoValue ==
    [][last'.op \in {"free", "erase"} =>
       \A p \in Ptrs \ {nullPointer} :
          HasBlock(getBlockId(p)) /\ (Free(p) \/ Erase(p)) =>
              /\ ~Live(p) => UNCHANGED blocks
              /\ Occupancy /\ SlotFree(p) => UNCHANGED blocks
              /\ Occupancy =>
                    \E q \in {p} : free(q)'.blocks = blocks' /\ erase(q)'.blocks = blocks'
      ]_vars

\* free has returned; a pointer alloc gave out lies in a free list, another
\* one above nextFree, and a third entry is still occupied
C6_Witness ==
    /\ last = [op |-> "free", err |-> errNone]
    /\ Occupancy
    /\ \E p, q, r \in issued \ {nullPointer} :
          /\ HasBlock(getBlockId(p)) /\ HasBlock(getBlockId(q)) /\ HasBlock(getBlockId(r))
          /\ SlotFree(p) /\ getIndex(p) < Block(getBlockId(p)).nextFree
          /\ SlotFree(q) /\ getIndex(q) >= Block(getBlockId(q)).nextFree
          /\ Live(r)

-----------------------------------------------------------------------------
(* The alloc-then-free scenario (SpecAllocFree) *)

\* C2: once every pointer of a run of allocs has been freed, each once and in
\* whatever order, size() is 1 and every block has nextFree at its first
\* index and an empty free list.
C2_AllFreed ==
    (issued # {} /\ \A p \in issued : ~Live(p)) =>
        /\ size = 1
        /\ \A k \in 1..Len(blocks) :
              /\ blocks[k].nextFree = blocks[k].firstNextFree
              /\ blocks[k].freeList = << >>

\* every entry of three blocks was allocated and all of them have been freed
C2_Witness ==
    /\ last = [op |-> "free", err |-> errNone]
    /\ Len(blocks) = ScenarioBlocks
    /\ Cardinality(issued) = ScenarioBlocks * ScenarioBlockSize - 1
    /\ \A p \in issued : ~Live(p)
    /\ size = 1

-----------------------------------------------------------------------------
(* Properties of the field calls *)

\* C3: for non-null pointers p and t that alloc returned and every pointer
\* field f, ref(p, f, t) returns t and the ref(p, f) that follows returns t.
C3_RefWriteRead ==
    [][last'.op = "refSet" =>
       \A p \in issued \ {nullPointer}, t \in issued \ {nullPointer} :
          \A i \in 1..Len(fieldNames) :
             LET out == refSet(p, fieldNames[i], t)
             IN  HasBlock(getBlockId(p)) /\ RefSet(p, fieldNames[i], t) =>
                    /\ out.err = errNone
                    /\ out.ret = t
                    /\ \E q \in {p}, f \in {fieldNames[i]}, u \in {t} :
                          refGet(q, f)' = Same(u, errNone)'
      ]_vars

\* the slabs of every block of bs
Slabs(bs) == [k \in 1..Len(bs) |-> <<bs[k].fields, bs[k].rawFields>>]

\* C7: free(p) never changes the field slabs: whichever pointer it is called
\* with, live, already freed or null, the pointer fields and raw fields of
\* every block hold after the call what they held before it, so every ref
\* and raw read gives what it gave.
C7_FreeKeepsSlabs ==
    \A p \in Ptrs : Slabs(free(p).blocks) = Slabs(blocks)

\* a free has just released the entry at pointer 1, whose fields still hold
\* what was written to them, and a live entry still refers to it
C7_Witness ==
    /\ last = [op |-> "free", err |-> errNone]
    /\ Num(1) \in issued /\ ~Live(Num(1))
    /\ refGet(Num(1), "x").ret = Num(1)
    /\ rawGet(Num(1), "r").ret = Num(1)
    /\ \E q \in LivePtrs : refGet(q, "x").ret = Num(1)

\* C8: after erase(p), whether p was occupied or already freed, the slot is
\* free and every pointer field and raw field at p reads 0.
C8_EraseZeroes ==
    [][last'.op = "erase" =>
       \A p \in issued \ {nullPointer} :
          HasBlock(getBlockId(p)) /\ Erase(p) =>
             \E q \in {p} :
                /\ (~Live(q))'
                /\ \A i \in 1..Len(fieldNames) :
                      refGet(q, fieldNames[i])' = Same(nullPointer, errNone)'
                /\ \A i \in 1..Len(rawFieldNames) :
                      rawGet(q, rawFieldNames[i])' = Same(nullPointer, errNone)'
      ]_vars

\* what a field of a new entry holds: the supplied value, or 0
Supplied(args, field) ==
    IF \E i \in 1..Len(args) : args[i][1] = field
    THEN args[CHOOSE i \in 1..Len(args) : args[i][1] = field][2]
    ELSE nullPointer

ArenaUnchanged == UNCHANGED <<config, blocks, blocksAvail, issued>>

\* C10: with the null pointer, free and erase, every ref and raw read and
\* write, every refAll and rawAll read and write and the value write throw
\* their null-pointer TypeError, before any error about the field names, and
\* leave the arena unchanged.
C10_NullRejected ==
    [][/\ Free(nullPointer) => last'.err = errFreeNull /\ ArenaUnchanged
       /\ Erase(nullPointer) => last'.err = errEraseNull /\ ArenaUnchanged
       /\ \A f \in FieldInputs :
             /\ RefGet(nullPointer, f) =>
                   last'.err = errReadNull /\ ArenaUnchanged
             /\ RawGet(nullPointer, f) =>
                   last'.err = errReadNull /\ ArenaUnchanged
             /\ \A t \in Targets :
                   RefSet(nullPointer, f, t) =>
                      last'.err = errWriteNull /\ ArenaUnchanged
             /\ \A n \in RawSamples :
                   RawSet(nullPointer, f, n) =>
                      last'.err = errWriteNull /\ ArenaUnchanged
       /\ RefAllGet(nullPointer) => last'.err = errReadNull /\ ArenaUnchanged
       /\ RawAllGet(nullPointer) => last'.err = errReadNull /\ ArenaUnchanged
       /\ \A refs \in GoodRefs \cup BadRefs :
             RefAllSet(nullPointer, refs) =>
                last'.err = errWriteNull /\ ArenaUnchanged
       /\ \A raws \in GoodRaws \cup BadRaws :
             RawAllSet(nullPointer, raws) =>
                last'.err = errWriteNull /\ ArenaUnchanged
       /\ \A v \in Values :
             ValueSet(nullPointer, v) =>
                last'.err = errWriteNull /\ ArenaUnchanged
      ]_vars

\* a write to a raw field through the null pointer has just been rejected
\* while the arena holds live and freed entries
C10_Witness ==
    /\ last = [op |-> "rawSet", err |-> errWriteNull]
    /\ LivePtrs # {}
    /\ issued \ LivePtrs # {}
    /\ totalAvailable > 0

-----------------------------------------------------------------------------
(* Properties of the value calls *)

\* C11: value(nullPointer), the read of the null pointer's value, returns
\* undefined and raises no error.
C11_NullValueRead ==
    [][last'.op = "value" /\ ValueGet(nullPointer) =>
          /\ last'.err = errNone
          /\ valueGet(nullPointer) = Same(Undef, errNone)
      ]_vars

-----------------------------------------------------------------------------
(* SpecKinds: two blocks with a pointer field and a raw field; the single   *)
(* and the bulk writes with every kind of field name, through live and      *)
(* freed pointers                                                           *)

NextKinds ==
    \/ \E v \in Values, a \in AllocArgs : Alloc(v, a[1], a[2])
    \/ \E p \in Ptrs : Free(p)
    \/ \E p \in Ptrs, f \in FieldInputs, t \in Targets : RefSet(p, f, t)
    \/ \E p \in Ptrs, f \in FieldInputs, n \in RawSamples : RawSet(p, f, n)
    \/ \E p \in Ptrs, refs \in GoodRefs \cup BadRefs : RefAllSet(p, refs)
    \/ \E p \in Ptrs, raws \in GoodRaws \cup BadRaws : RawAllSet(p, raws)

SpecKinds == InitF /\ [][NextKinds]_vars

-----------------------------------------------------------------------------
(* Properties of the field names *)

\* the error a name gets where a pointer field is expected; errNone for a
\* pointer field
RefNameError(f) ==
    IF \E i \in 1..Len(rawFieldNames) : rawFieldNames[i] = f THEN errRawAsPointer
    ELSE IF \E i \in 1..Len(fieldNames) : fieldNames[i] = f THEN errNone
    ELSE errUnknownPointerField

\* the error a name gets where a raw field is expected; errNone for a raw
\* field
RawNameError(f) ==
    IF \E i \in 1..Len(fieldNames) : fieldNames[i] = f THEN errPointerAsRaw
    ELSE IF \E i \in 1..Len(rawFieldNames) : rawFieldNames[i] = f THEN errNone
    ELSE errUnknownRawField

\* the names that are no pointer field, and those that are no raw field
BadRefNames == {f \in FieldInputs : RefNameError(f) # errNone}
BadRawNames == {f \in FieldInputs : RawNameError(f) # errNone}

\* the errors of the calls with a name that is no pointer field or no raw
\* field, made with the pointers of ps for the single calls and of qs for
\* the bulk writes, and of alloc
BadNamesRejected(ps, qs) ==
    /\ \A f \in BadRefNames, t \in Targets :
          /\ \A p \in ps : /\ refGet(p, f).err = RefNameError(f)
                           /\ refSet(p, f, t).err = RefNameError(f)
          /\ \A p \in qs : refAllSet(p, << <<f, t>> >>).err = RefNameError(f)
    /\ \A f \in BadRawNames, n \in RawSamples :
          /\ \A p \in ps : /\ rawGet(p, f).err = RawNameError(f)
                           /\ rawSet(p, f, n).err = RawNameError(f)
          /\ \A p \in qs : rawAllSet(p, << <<f, n>> >>).err = RawNameError(f)
    /\ \A v \in Values, n \in RawSamples :
        \A fs \in NewSlabs(Len(fieldNames)), rs \in NewSlabs(Len(rawFieldNames)) :
          /\ \A f \in BadRefNames :
                alloc(v, << <<f, n>> >>, << >>, fs, rs).err = RefNameError(f)
          /\ \A f \in BadRawNames :
                alloc(v, << >>, << <<f, n>> >>, fs, rs).err = RawNameError(f)

\* the non-null pointers alloc returned whose block exists
BlockPtrs == {p \in issued \ {nullPointer} : HasBlock(getBlockId(p))}

FieldSlabs(bs) == [k \in 1..Len(bs) |-> bs[k].fields]
RawSlabs(bs) == [k \in 1..Len(bs) |-> bs[k].rawFields]

\* C13: a successful raw(p, r, x) or rawAll(p, raws) leaves every pointer
\* field of every entry as it was, so no ref(q, f) changes; a successful
\* ref(p, f, t) or refAll(p, refs) leaves every raw field of every entry as
\* it was, so no raw(q, r) changes.
C13_KindIsolation ==
    \A p \in Ptrs :
       /\ \A f \in FieldInputs, n \in RawSamples :
             LET out == rawSet(p, f, n)
             IN  out.err = errNone => FieldSlabs(out.blocks) = FieldSlabs(blocks)
       /\ \A raws \in GoodRaws \cup BadRaws :
             LET out == rawAllSet(p, raws)
             IN  out.err = errNone => FieldSlabs(out.blocks) = FieldSlabs(blocks)
       /\ \A f \in FieldInputs, t \in Targets :
             LET out == refSet(p, f, t)
             IN  out.err = errNone => RawSlabs(out.blocks) = RawSlabs(blocks)
       /\ \A refs \in GoodRefs \cup BadRefs :
             LET out == refAllSet(p, refs)
             IN  out.err = errNone => RawSlabs(out.blocks) = RawSlabs(blocks)

\* a raw field has just been written while an occupied entry holds a
\* non-zero pointer field and a non-zero raw field
C13_Witness ==
    /\ last = [op |-> "rawSet", err |-> errNone]
    /\ \E q \in LivePtrs : /\ refGet(q, "x").ret = Num(1)
                           /\ rawGet(q, "r").ret = Num(1)

-----------------------------------------------------------------------------
(* SpecDrop: an arena without fields that grows to three blocks and is cut  *)
(* back: alloc, free with any pointer alloc returned, and wipeBlock, drop   *)
(* and dropEmpty on every block                                             *)

NextDrop ==
    \/ \E v \in Values : AllocUpTo(ScenarioBlocks, v, << >>, << >>)
    \/ \E p \in Ptrs : Free(p)
    \/ \E b \in BlockIds : WipeBlock(b)
    \/ \E b \in BlockIds : Drop(b)
    \/ DropEmpty

SpecDrop == Init /\ [][NextDrop]_vars

-----------------------------------------------------------------------------
(* Properties of the block list *)

\* every block's id is its place in the block list
BlockIdsInOrder == \A k \in 1..Len(blocks) : blocks[k].blockId = k - 1

-----------------------------------------------------------------------------
(* SpecCapacity: a new arena of block size 5 with one pointer field, filled *)
(* by allocs only                                                           *)

InitCapacity == New(FieldNames, CapacityBlockSize, << >>)

NextCapacity ==
    /\ Cardinality(issued) < CapacityAllocs
    /\ \E v \in Values, refs \in GoodRefs : Alloc(v, refs, << >>)

SpecCapacity == InitCapacity /\ [][NextCapacity]_vars

\* the number of allocs made so far: none has failed, nothing was freed
allocCount == Cardinality(issued)

\* C15: in a new arena of block size 5 with one field, available(0) is 0
\* after 5 allocs, and the 6th alloc, no earlier one, makes block 1 and
\* blocksCount() 2.
C15_SixthAllocMakesBlock ==
    /\ allocCount = blockSize => available(0) = 0
    /\ allocCount <= blockSize => blocksCount = 1
    /\ allocCount = blockSize + 1 => blocksCount = 2

\* C15, amended: available(0) is 0 after 4 allocs, the root's entry 0 being
\* kept for the null pointer, and the 5th alloc, no earlier one, makes
\* block 1 and blocksCount() 2.
C15_FifthAllocMakesBlock ==
    /\ allocCount >= blockSize - 1 => available(0) = 0
    /\ allocCount < blockSize - 1 => available(0) > 0
    /\ allocCount <= blockSize - 1 => blocksCount = 1
    /\ allocCount = blockSize => blocksCount = 2 /\ entryCount(1) = 1

\* the 5th alloc has just made block 1
C15_Witness ==
    /\ last = [op |-> "alloc", err |-> errNone]
    /\ blockSize = CapacityBlockSize
    /\ allocCount = blockSize
    /\ blocksCount = 2
    /\ available(0) = 0
    /\ available(1) = blockSize - 1

\* C16: drop() on a block that is not the last of the block list fails with
\* its error and leaves the block list and every block as they were.
C16_DropNotFinal ==
    \A b \in BlockIds :
       b # blocksCount - 1 => drop(b) = Same(Undef, errNotFinalBlock)

\* drop has just been refused on a block of an arena of three blocks, the
\* last of which holds an entry
C16_Witness ==
    /\ last = [op |-> "drop", err |-> errNotFinalBlock]
    /\ blocksCount = ScenarioBlocks
    /\ entryCount(blocksCount - 1) > 0

\* C17: drop() on a block after the root that holds occupied entries fails
\* with an error and leaves the block list and the block's entries as they
\* were, also when that block is the last of the list.
C17_DropOccupied ==
    \A b \in BlockIds \ {0} :
       entryCount(b) > 0 =>
          /\ drop(b).err # errNone
          /\ drop(b).blocks = blocks
          /\ drop(b).blocksAvail = blocksAvail

\* C18: drop() on the root block when it is the only block wipes it in place,
\* after which size() is 1 and the block list is still the root alone; in
\* every state blocksCount() >= 1 and blocks[0] is the root.
C18_RootPermanent ==
    /\ [](/\ blocksCount >= 1
          /\ blocks[1].blockId = 0
          /\ blocks[1].firstNextFree = 1)
    /\ [][last'.op = "drop" /\ blocksCount = 1 /\ Drop(0) =>
             /\ last'.err = errNone
             /\ blocksCount' = 1
             /\ size' = 1
             /\ blocks'[1] = wipe_block(blocks[1], blocksAvail).blk
         ]_vars

\* drop has just returned for a root that is the only block: the root is
\* empty and no pointer alloc returned holds a value
C18_Witness ==
    /\ last = [op |-> "drop", err |-> errNone]
    /\ blocksCount = 1
    /\ size = 1
    /\ issued # {}
    /\ LivePtrs = {}

\* the number of blocks left when the trailing empty blocks after the root
\* are taken off bs
RECURSIVE KeepCount(_)
KeepCount(bs) ==
    IF Len(bs) <= 1 THEN Len(bs)
    ELSE IF bs[Len(bs)].nextFree - Len(bs[Len(bs)].freeList) = 0
    THEN KeepCount(SubSeq(bs, 1, Len(bs) - 1))
    ELSE Len(bs)

\* C19: in every state dropEmpty() returns without an error and removes
\* exactly the trailing empty blocks after the root: it stops at the first
\* non-empty block from the end, an empty block before a non-empty one stays,
\* and no non-empty block and never the root is removed.
C19_DropEmptyTrailing ==
    /\ dropEmpty.err = errNone
    /\ dropEmpty.blocks = SubSeq(blocks, 1, KeepCount(blocks))

-----------------------------------------------------------------------------
(* SpecFull: an arena without fields that has grown to the last block id    *)
(* its pointers can hold, for 8-bit and for 16-bit indexes; every block is  *)
(* full and the caller holds pointers to the first two entries and to the   *)
(* last entry of the root                                                   *)

\* the block sizes of the specification: of both index widths
FullBlockSizes == {ScenarioBlockSize, max8, max8 + 1}

\* the number of block ids of an index width
BlockIdLimit == IF wordSize = 1 THEN max24 ELSE max16

InitFull ==
    /\ blockSize \in FullBlockSizes
    /\ fieldNames = << >>
    /\ rawFieldNames = << >>
    /\ elided = BlockIdLimit - 1
    /\ blocks = <<FullRoot(<< >>, << >>)>>
    /\ blocksAvail = << >>
    /\ issued = {getPointer(0, i) : i \in {1, 2, blockSize - 1}}
    /\ last = [op |-> "new", err |-> errNone]

NextFull ==
    \/ \E v \in Values, a \in AllocArgs : Alloc(v, a[1], a[2])
    \/ \E p \in Ptrs : Free(p)
    \/ \E p \in Ptrs : Erase(p)
    \/ \E p \in Ptrs : ValueGet(p)

SpecFull == InitFull /\ [][NextFull]_vars

\* C20: when every block is full and the next block id is outside the range
\* of the pointers (2^24 ids for 8-bit indexes, 2^16 for 16-bit indexes),
\* alloc fails with the out-of-memory RangeError and the block list is as it
\* was: no block is appended.
C20_OutOfMemory ==
    [][last'.op = "alloc" /\ totalAvailable = 0 /\ blocksCount >= BlockIdLimit =>
             /\ last'.err = errOutOfMemory
             /\ UNCHANGED <<blocks, blocksAvail, issued>>
      ]_vars

\* alloc has just failed in a full arena of 2^16 blocks with 16-bit indexes
C20_Witness ==
    /\ last = [op |-> "alloc", err |-> errOutOfMemory]
    /\ wordSize = 2
    /\ blocksCount = max16
    /\ totalAvailable = 0

-----------------------------------------------------------------------------
(* SpecBulk: a single block with a pointer field and a raw field; alloc,    *)
(* free and the value write with any pointer alloc returned, and the bulk   *)
(* reads and writes of the fields                                           *)

\* refs and raws objects whose second key is no field of the kind
MixedRefs == {<< <<"x", Num(1)>>, <<"r", Num(1)>> >>}
MixedRaws == {<< <<"r", Num(1)>>, <<"x", Num(1)>> >>}
BulkRefs == GoodRefs \cup BadRefs \cup MixedRefs
BulkRaws == GoodRaws \cup BadRaws \cup MixedRaws

NextBulk ==
    \/ \E v \in Values, a \in GoodRefs \X GoodRaws :
          ~NeedsNewBlock /\ Alloc(v, a[1], a[2])
    \/ \E p \in Ptrs : Free(p)
    \/ \E p \in Ptrs, v \in Values : ValueSet(p, v)
    \/ \E p \in Ptrs : RefAllGet(p)
    \/ \E p \in Ptrs : RawAllGet(p)
    \/ \E p \in Ptrs, refs \in BulkRefs : RefAllSet(p, refs)
    \/ \E p \in Ptrs, raws \in BulkRaws : RawAllSet(p, raws)

SpecBulk == InitG /\ [][NextBulk]_vars

-----------------------------------------------------------------------------
(* Properties of the bulk reads and writes *)

\* the slot of p is occupied: below nextFree and not in the free list
SlotOccupied(p) == ~SlotFree(p)

\* what the bulk reads return for the pointers of existing blocks, and what
\* the bulk writes do where occ(p) is false, occ telling the entries that
\* count as occupied
BulkReads(occ(_)) ==
    \A p \in BlockPtrs :
       /\ refAllGet(p) =
             Same([i \in 1..Len(fieldNames) |->
                      <<fieldNames[i],
                        IF occ(p) THEN refGet(p, fieldNames[i]).ret
                        ELSE nullPointer>>], errNone)
       /\ rawAllGet(p) =
             Same([i \in 1..Len(rawFieldNames) |->
                      <<rawFieldNames[i],
                        IF occ(p) THEN rawGet(p, rawFieldNames[i]).ret
                        ELSE nullPointer>>], errNone)
       /\ ~occ(p) =>
             /\ \A refs \in BulkRefs : refAllSet(p, refs) = Same(refs, errNone)
             /\ \A raws \in BulkRaws : rawAllSet(p, raws) = Same(raws, errNone)

RECURSIVE refEach(_, _, _)
\* ref(pointer, k, refs[k]) called for each key k of refs in turn, on the
\* blocks bs: the blocks left and the error of the first call that throws
refEach(bs, pointer, refs) ==
    IF refs = << >> THEN [blocks |-> bs, err |-> errNone]
    ELSE LET k == Head(refs)[1]
             b == getBlockId(pointer)
         IN  IF pointer = nullPointer THEN [blocks |-> bs, err |-> errWriteNull]
             ELSE IF k \in DOMAIN names /\ names[k] < 0
             THEN [blocks |-> bs, err |-> errRawAsPointer]
             ELSE IF ~HasBlock(b) THEN [blocks |-> bs, err |-> errNoBlock]
             ELSE IF k \notin DOMAIN names
             THEN [blocks |-> bs, err |-> errUnknownPointerField]
             ELSE refEach([bs EXCEPT ![Pos(b)].fields[names[k] + 1] =
                              SlabSet(@, getIndex(pointer), Head(refs)[2])],
                          pointer, Tail(refs))

RECURSIVE rawEach(_, _, _)
\* raw(pointer, k, raws[k]) called for each key k of raws in turn
rawEach(bs, pointer, raws) ==
    IF raws = << >> THEN [blocks |-> bs, err |-> errNone]
    ELSE LET k == Head(raws)[1]
             b == getBlockId(pointer)
         IN  IF pointer = nullPointer THEN [blocks |-> bs, err |-> errWriteNull]
             ELSE IF k \in DOMAIN names /\ names[k] >= 0
             THEN [blocks |-> bs, err |-> errPointerAsRaw]
             ELSE IF ~HasBlock(b) THEN [blocks |-> bs, err |-> errNoBlock]
             ELSE IF k \notin DOMAIN names
             THEN [blocks |-> bs, err |-> errUnknownRawField]
             ELSE rawEach([bs EXCEPT ![Pos(b)].rawFields[-names[k]] =
                              SlabSet(@, getIndex(pointer), Head(raws)[2])],
                          pointer, Tail(raws))

\* the bulk writes through the pointers of ps do what the single writes of
\* their keys do, and return their argument
BulkAsSingle(ps) ==
    \A p \in ps :
       /\ \A refs \in BulkRefs :
             LET out == refAllSet(p, refs)
                 each == refEach(blocks, p, refs)
             IN  /\ out.blocks = each.blocks
                 /\ out.blocksAvail = blocksAvail
                 /\ out.err = each.err
                 /\ out.ret = refs
                 /\ Len(refs) = 1 =>
                       /\ out.blocks = refSet(p, refs[1][1], refs[1][2]).blocks
                       /\ out.err = refSet(p, refs[1][1], refs[1][2]).err
       /\ \A raws \in BulkRaws :
             LET out == rawAllSet(p, raws)
                 each == rawEach(blocks, p, raws)
             IN  /\ out.blocks = each.blocks
                 /\ out.blocksAvail = blocksAvail
                 /\ out.err = each.err
                 /\ out.ret = raws
                 /\ Len(raws) = 1 =>
                       /\ out.blocks = rawSet(p, raws[1][1], raws[1][2]).blocks
                       /\ out.err = rawSet(p, raws[1][1], raws[1][2]).err

\* C22: for every non-null pointer p of an existing block, refAll(p, refs)
\* leaves the arena in the state that ref(p, k, refs[k]) for each key k of
\* refs leaves, and returns refs; likewise rawAll(p, raws) and raw.
C22_BulkAsSingle == BulkAsSingle(BlockPtrs)

-----------------------------------------------------------------------------
(* Properties of the entries that other calls leave alone *)

\* what value(q), ref(q, f) and raw(q, r) read in the blocks bs
Entry(bs, q) ==
    LET blk == bs[Pos(getBlockId(q))]
        i == getIndex(q)
    IN  [value |-> ArrGet(blk.values, i),
         refs |-> [k \in 1..Len(blk.fields) |-> SlabGet(blk.fields[k], i)],
         raws |-> [k \in 1..Len(blk.rawFields) |-> SlabGet(blk.rawFields[k], i)]]

\* the entries alloc returned that are occupied and hold a value
OccupiedPtrs == {q \in LivePtrs : SlotOccupied(q)}

\* no call that targets another pointer than q changes what q reads
OthersKeep(q) ==
    /\ \A p \in Ptrs \ {q} :
          /\ Entry(free(p).blocks, q) = Entry(blocks, q)
          /\ Entry(erase(p).blocks, q) = Entry(blocks, q)
          /\ \A v \in Values : Entry(valueSet(p, v).blocks, q) = Entry(blocks, q)
          /\ \A f \in FieldInputs, t \in Targets :
                Entry(refSet(p, f, t).blocks, q) = Entry(blocks, q)
          /\ \A f \in FieldInputs, n \in RawSamples :
                Entry(rawSet(p, f, n).blocks, q) = Entry(blocks, q)
    /\ \A v \in Values, a \in AllocArgs :
        \A fs \in NewSlabs(Len(fieldNames)), rs \in NewSlabs(Len(rawFieldNames)) :
          LET out == alloc(v, a[1], a[2], fs, rs)
          IN  out.ret # q => Entry(out.blocks, q) = Entry(blocks, q)

\* C23 as stated: for an occupied pointer q, value(q), ref(q, f) and
\* raw(q, r) are left as they are by every alloc, free, erase, value write,
\* ref write and raw write that targets another pointer.
C23_IndexStable == \A q \in OccupiedPtrs : OthersKeep(q)

\* C23, amended: the same in the states where values are held by the
\* occupied entries only.
C23_IndexStableOccupancy == Occupancy => \A q \in OccupiedPtrs : OthersKeep(q)

\* a free has just released one of two entries; the other is occupied and
\* has non-zero fields, and the freed index waits in the free list
C23_Witness ==
    /\ last = [op |-> "free", err |-> errNone]
    /\ Occupancy
    /\ \E q \in OccupiedPtrs, p \in BlockPtrs \ LivePtrs :
          /\ Entry(blocks, q).refs = <<Num(1)>>
          /\ Entry(blocks, q).raws = <<Num(1)>>
          /\ Len(Block(getBlockId(p)).freeList) = 1

-----------------------------------------------------------------------------
(* SpecConstruct: new PointerSet(fields, blockSize, rawFields) with block   *)
(* sizes at both ends of each word size and past the limit, and with raw    *)
(* field names apart from and among the pointer field names; then alloc,    *)
(* free and erase on the arenas that were made                              *)

errBlockSize == "block size must be less than or equal to 65536"
errInvalidRawField == "invalid raw field"

\* obj[f] = id on the object reg
PutName(reg, f, id) == [g \in DOMAIN reg \cup {f} |-> IF g = f THEN id ELSE reg[g]]

RECURSIVE fieldLoop(_, _, _)
\* the loop over fields (index.ts 768-775): field f gets the id this.fields.length
fieldLoop(reg, fields, n) ==
    IF fields = << >> THEN reg
    ELSE fieldLoop(PutName(reg, Head(fields), n), Tail(fields), n + 1)

RECURSIVE rawFieldLoop(_, _, _, _)
\* the loop over rawFields (index.ts 780-790): raw field f gets the id
\* ~this.rawFields.length, unless fields includes it
rawFieldLoop(reg, fields, rawFields, n) ==
    IF rawFields = << >> THEN [err |-> errNone, names |-> reg]
    ELSE IF \E i \in 1..Len(fields) : fields[i] = Head(rawFields)
    THEN [err |-> errInvalidRawField, names |-> reg]
    ELSE rawFieldLoop(PutName(reg, Head(rawFields), -(n + 1)), fields,
                      Tail(rawFields), n + 1)

\* the PointerSet constructor: the error it throws and the registry it builds
construct(fields, bs, rawFields) ==
    IF getWordSize(bs) \notin {1, 2}
    THEN [err |-> errBlockSize, names |-> << >>]
    ELSE rawFieldLoop(fieldLoop(<< >>, fields, 0), fields, rawFields, 0)

\* the arguments of the constructor
ConstructBlockSizes == {1, 2, max8, max8 + 1, max16, max16 + 1}
ConstructFields == {<< >>, <<"x">>, <<"x", "y">>}
ConstructRawFields == {<< >>, <<"r">>, <<"r", "q">>, <<"x">>, <<"r", "y">>}

\* slabs of a root block of any size: entry 0 is 0, entry 1 is whatever the
\* memory held, the other entries happen to be 0
SampleRootSlabs(count, bs) ==
    {[i \in 1..count |-> [j \in 1..bs |-> IF j = 2 THEN g ELSE nullPointer]] :
        g \in GarbageSamples}

InitConstruct ==
    \E fields \in ConstructFields, bs \in ConstructBlockSizes,
       rawFields \in ConstructRawFields :
        LET c == construct(fields, bs, rawFields)
        IN  /\ blockSize = bs
            /\ fieldNames = fields
            /\ rawFieldNames = rawFields
            /\ elided = 0
            /\ IF c.err = errNone
               THEN /\ \E fs \in SampleRootSlabs(Len(fields), bs),
                          rs \in SampleRootSlabs(Len(rawFields), bs) :
                          blocks = <<RootBlock(fs, rs)>>
                    /\ blocksAvail = <<0>>
               ELSE blocks = << >> /\ blocksAvail = << >>
            /\ issued = {}
            /\ last = [op |-> "new", err |-> c.err]

\* the constructor returned an arena
Constructed == blocks # << >>

NextConstruct ==
    /\ Constructed
    /\ \/ \E v \in Values : Cardinality(issued) < MaxBlocks /\ Alloc(v, << >>, << >>)
       \/ \E p \in Ptrs : Free(p)
       \/ \E p \in Ptrs : Erase(p)

SpecConstruct == InitConstruct /\ [][NextConstruct]_vars

\* a raw field name is among the pointer field names
NamesOverlap ==
    \E i \in 1..Len(fieldNames), j \in 1..Len(rawFieldNames) :
        fieldNames[i] = rawFieldNames[j]

C25_AllocReturns ==
    Constructed /\ blocksCount < BlockIdLimit =>
       \A v \in Values :
        \A fs \in NewSlabs(Len(fieldNames)), rs \in NewSlabs(Len(rawFieldNames)) :
          LET out == alloc(v, << >>, << >>, fs, rs)
          IN  out.err = errNone /\ out.ret # nullPointer

-----------------------------------------------------------------------------
(* The byte views of a raw field: raw8, raw16 and raw32 give a Uint8Array   *)
(* of 4 bytes, a Uint16Array of 2 half-words and a Uint32Array of 1 word    *)
(* over the storage of the field's slab entry, in little-endian order       *)

\* the 4 bytes and the 2 half-words of a 32-bit number, lowest first
Bytes(n) == <<n[2] % 256, n[2] \div 256, n[1] % 256, n[1] \div 256>>
Halves(n) == <<n[2], n[1]>>
\* the 32-bit number 4 bytes, or 2 half-words, make up
FromBytes(b) == <<b[3] + 256 * b[4], b[1] + 256 * b[2]>>
FromHalves(h) == <<h[2], h[1]>>

\* a read of a view: what the view's elements show of the slab entry
ViewGet(pointer, field, Elements(_)) ==
    LET r == rawGet(pointer, field)
    IN  IF r.err = errNone THEN Same(Elements(r.ret), errNone) ELSE Same(<< >>, r.err)

\* a write through a view: the slab entry becomes the number n the view's
\* elements make up
ViewSet(pointer, field, n) ==
    LET w == rawSet(pointer, field, n)
    IN  Out(w.blocks, w.blocksAvail, Undef, w.err)

\* raw8(pointer, field), raw16(pointer, field), raw32(pointer, field)
raw8Get(pointer, field) == ViewGet(pointer, field, Bytes)
raw16Get(pointer, field) == ViewGet(pointer, field, Halves)
raw32Get(pointer, field) == ViewGet(pointer, field, LAMBDA n : <<n>>)

\* raw8(pointer, field, val), raw16(pointer, field, val), raw32(pointer, field, val)
raw8Set(pointer, field, val) == ViewSet(pointer, field, FromBytes(val))
raw16Set(pointer, field, val) == ViewSet(pointer, field, FromHalves(val))
raw32Set(pointer, field, val) == ViewSet(pointer, field, val[1])

\* u8[k] = byte and u16[k] = half on the views of (pointer, field)
raw8Put(pointer, field, k, byte) ==
    LET r == rawGet(pointer, field)
    IN  IF r.err # errNone THEN Same(Undef, r.err)
        ELSE ViewSet(pointer, field, FromBytes([Bytes(r.ret) EXCEPT ![k + 1] = byte]))
raw16Put(pointer, field, k, half) ==
    LET r == rawGet(pointer, field)
    IN  IF r.err # errNone THEN Same(Undef, r.err)
        ELSE ViewSet(pointer, field, FromHalves([Halves(r.ret) EXCEPT ![k + 1] = half]))

Raw8Set(p, f, val) == Do("raw8Set", raw8Set(p, f, val)) /\ UNCHANGED issued
Raw16Set(p, f, val) == Do("raw16Set", raw16Set(p, f, val)) /\ UNCHANGED issued
Raw32Set(p, f, val) == Do("raw32Set", raw32Set(p, f, val)) /\ UNCHANGED issued
Raw8Put(p, f, k, byte) == Do("raw8Put", raw8Put(p, f, k, byte)) /\ UNCHANGED issued
Raw16Put(p, f, k, half) == Do("raw16Put", raw16Put(p, f, k, half)) /\ UNCHANGED issued

\* SpecViews: an arena with one raw field and one entry, written through
\* raw() and through the views

\* 0x01020304 and 0xffffffff among them
ViewSamples == {Num(0), Num(1), <<258, 772>>, <<65535, 65535>>}
ByteSamples == {<<4, 3, 2, 1>>, <<0, 0, 0, 255>>}
HalfSamples == {<<1541, 2055>>}

InitViews == New(<< >>, BlockSize, RawFieldNames)

NextViews ==
    \/ \E v \in Values, raws \in GoodRaws : ~NeedsNewBlock /\ Alloc(v, << >>, raws)
    \/ \E p \in Ptrs : Free(p)
    \/ \E p \in Ptrs, n \in ViewSamples : RawSet(p, "r", n)
    \/ \E p \in Ptrs, val \in ByteSamples : Raw8Set(p, "r", val)
    \/ \E p \in Ptrs, val \in HalfSamples : Raw16Set(p, "r", val)
    \/ \E p \in Ptrs, n \in ViewSamples : Raw32Set(p, "r", <<n>>)
    \/ \E p \in Ptrs, k \in 0..3 : Raw8Put(p, "r", k, 9)
    \/ \E p \in Ptrs, k \in 0..1 : Raw16Put(p, "r", k, 2570)

SpecViews == InitViews /\ [][NextViews]_vars

\* the views of the raw field of p show the number raw(p, "r") returns
ViewsAgree(p) ==
    LET n == rawGet(p, "r").ret
    IN  /\ rawGet(p, "r").err = errNone
        /\ FromBytes(raw8Get(p, "r").ret) = n
        /\ FromHalves(raw16Get(p, "r").ret) = n
        /\ raw32Get(p, "r").ret = <<n>>

-----------------------------------------------------------------------------
(* Properties of the bookkeeping of the blocks *)

\* the number of indexes of a block that hold a value
DefinedCount(blk) ==
    Cardinality({i \in 0..(blockSize - 1) : ArrGet(blk.values, i) # Undef})

\* values are held by the occupied entries only, and entryCount counts them
\* and the root's entry 0
OccupancyCounts ==
    /\ Occupancy
    /\ \A b \in BlockIds :
          entryCount(b) = DefinedCount(Block(b)) + Block(b).firstNextFree

\* a value is written through a pointer whose entry holds none
DanglingWrite ==
    /\ last'.op = "valueSet"
    /\ \E p \in Ptrs \ LivePtrs, v \in Values : ValueSet(p, v) /\ last'.err = errNone

\* C27 as stated: after any sequence of alloc, free, erase, value, wipeBlock,
\* drop and dropEmpty calls, in every block an index holds a value exactly
\* when it is occupied (not below the first index, below nextFree and not in
\* the free list), and entryCount(b) is the number of indexes that hold a
\* value plus 1 for the root and 0 for the other blocks.
C27_Occupancy == OccupancyCounts

\* C27, amended: the same after any sequence of those calls in which no
\* value is written through a pointer whose entry holds none: it holds of a
\* new arena, and every other call keeps it.
C27_OccupancyKept ==
    /\ (last.op = "new" => OccupancyCounts)
    /\ [][OccupancyCounts /\ ~DanglingWrite => OccupancyCounts']_vars

\* a value has just been written to an occupied entry of the second block,
\* whose free list holds the index of a freed entry
C27_Witness ==
    /\ last = [op |-> "valueSet", err |-> errNone]
    /\ OccupancyCounts
    /\ Len(blocks) = MaxBlocks
    /\ blocks[MaxBlocks].freeList # << >>
    /\ DefinedCount(blocks[MaxBlocks]) > 0

-----------------------------------------------------------------------------
(* SpecHeld: an arena without fields, either of up to MaxBlocks blocks of   *)
(* BlockSize entries or of one block of HeldBlockSize entries, under alloc, *)
(* free, erase, value writes, wipeBlock and drop with any pointer alloc     *)
(* returned; the record of the last call also keeps the pointer it returned *)
(* and the pointers held: those alloc returned that have not been freed,    *)
(* erased, or had their block wiped or dropped since                        *)

\* blockSize of the one-block arena of SpecHeld
HeldBlockSize == 4

\* a call with outcome out, after which the pointers of held are held
DoHeld(name, out, held) ==
    /\ StackBound(out.blocks)
    /\ blocks' = out.blocks
    /\ blocksAvail' = out.blocksAvail
    /\ last' = [op |-> name, err |-> out.err, ret |-> out.ret, held |-> held]
    /\ UNCHANGED config

\* the pointers of held outside block b
NotIn(b, held) == {p \in held : getBlockId(p) # b}

HeldAlloc(value) ==
    /\ NeedsNewBlock => Len(blocks) < MaxBlocks /\ blockSize = BlockSize
    /\ LET out == alloc(value, << >>, << >>, << >>, << >>)
       IN  /\ DoHeld("alloc", out,
                     IF out.err = errNone THEN last.held \cup {out.ret} ELSE last.held)
           /\ issued' = IF out.err = errNone THEN issued \cup {out.ret} ELSE issued

HeldFree(p) ==
    /\ DoHeld("free", free(p),
              IF free(p).err = errNone THEN last.held \ {p} ELSE last.held)
    /\ UNCHANGED issued

HeldErase(p) ==
    /\ DoHeld("erase", erase(p),
              IF erase(p).err = errNone THEN last.held \ {p} ELSE last.held)
    /\ UNCHANGED issued

HeldValueSet(p, v) ==
    DoHeld("valueSet", valueSet(p, v), last.held) /\ UNCHANGED issued

HeldWipeBlock(b) ==
    DoHeld("wipeBlock", wipeBlock(b), NotIn(b, last.held)) /\ UNCHANGED issued

HeldDrop(b) ==
    /\ DoHeld("drop", drop(b),
              IF drop(b).err = errNone THEN NotIn(b, last.held) ELSE last.held)
    /\ UNCHANGED issued

InitHeld ==
    /\ blockSize \in {BlockSize, HeldBlockSize}
    /\ fieldNames = << >>
    /\ rawFieldNames = << >>
    /\ elided = 0
    /\ blocks = <<RootBlock(<< >>, << >>)>>
    /\ blocksAvail = <<0>>
    /\ issued = {}
    /\ last = [op |-> "new", err |-> errNone, ret |-> Undef, held |-> {}]

NextHeld ==
    \/ \E v \in Values : HeldAlloc(v)
    \/ \E p \in Ptrs : HeldFree(p)
    \/ \E p \in Ptrs : HeldErase(p)
    \/ \E p \in Ptrs, v \in Values : HeldValueSet(p, v)
    \/ \E b \in BlockIds : HeldWipeBlock(b)
    \/ \E b \in BlockIds : HeldDrop(b)

SpecHeld == InitHeld /\ [][NextHeld]_vars


\* the pointers held are pointers of occupied entries that hold a value
HeldOccupied == Occupancy /\ \A p \in last.held : Live(p)

\* a value is written through a pointer whose entry holds none, in SpecHeld
HeldDanglingWrite ==
    /\ last'.op = "valueSet"
    /\ \E p \in Ptrs \ LivePtrs, v \in Values :
          HeldValueSet(p, v) /\ last'.err = errNone

\* an alloc that returns gives a pointer that is not nullPointer and not held
FreshAlloc ==
    last'.op = "alloc" /\ last'.err = errNone
        => last'.ret # nullPointer /\ last'.ret \notin last.held

\* C28: alloc never hands out a slot that is already live: the pointer it
\* returns differs from nullPointer and from every pointer an earlier alloc
\* returned that has not since been freed, erased, or had its block wiped or
\* dropped.
C28_AllocFresh == [][FreshAlloc]_vars

\* C28, for callers that write values through pointers of entries holding a
\* value only: as long as no value was written through a pointer whose entry
\* holds none, the pointers held are pointers of occupied entries, and alloc
\* returns a pointer that is not nullPointer and not held.
C28_AllocFreshOccupancy ==
    /\ last.op = "new" => HeldOccupied
    /\ [][HeldOccupied /\ ~HeldDanglingWrite => HeldOccupied' /\ FreshAlloc]_vars

\* alloc has reused the slot of a freed pointer while another pointer is held
C28_Witness ==
    /\ last.op = "alloc" /\ last.err = errNone
    /\ blockSize = HeldBlockSize
    /\ Block(0).freeList # << >>
    /\ Cardinality(last.held) = 2
    /\ HeldOccupied


\* the free list of every block holds pairwise distinct indices from the
\* first index up to nextFree - 1 and fits its backing array of blockSize
\* elements, and nextFree lies between the first index and blockSize
FreeListInv ==
    \A k \in 1..Len(blocks) :
        LET blk == blocks[k]
            fl == blk.freeList
        IN  /\ \A i, j \in 1..Len(fl) : i # j => fl[i] # fl[j]
            /\ \A j \in 1..Len(fl) : fl[j] >= blk.firstNextFree /\ fl[j] < blk.nextFree
            /\ Len(fl) <= blockSize
            /\ blk.firstNextFree <= blk.nextFree /\ blk.nextFree <= blockSize

\* C29: free-list invariant: in every reachable state and every block, the
\* free list holds pairwise distinct indices, each >= the reserved first index
\* and < nextFree, its length never exceeds blockSize, and
\* reservedFirstIndex <= nextFree <= blockSize.
C29_FreeList == FreeListInv

\* C29, for callers that write values through pointers of entries holding a
\* value only: the free-list invariant and the occupancy of values hold of a
\* new arena, and every call other than a value write through a pointer whose
\* entry holds no value keeps them.
C29_FreeListKept ==
    /\ last.op = "new" => FreeListInv /\ Occupancy
    /\ [][FreeListInv /\ Occupancy /\ ~HeldDanglingWrite
              => FreeListInv' /\ Occupancy']_vars

\* a free has just pushed a second index on the free list of the one-block
\* arena, out of allocation order, while the last entry stays allocated
C29_Witness ==
    /\ last.op = "free" /\ last.err = errNone
    /\ blockSize = HeldBlockSize
    /\ Block(0).freeList = <<1, 2>>
    /\ Block(0).nextFree = HeldBlockSize
    /\ FreeListInv /\ Occupancy


\* the counts of every block lie between 0 and blockSize, the reserved entry
\* of the root is counted, and entries and available spaces add up to the
\* capacity of the blocks
CountBounds ==
    /\ \A b \in BlockIds :
          /\ 0 <= entryCount(b) /\ entryCount(b) <= blockSize
          /\ 0 <= available(b) /\ available(b) <= blockSize
    /\ size >= 1
    /\ size + totalAvailable = blocksCount * blockSize

-----------------------------------------------------------------------------
(* The effect of free, the order of reuse, and the block alloc picks        *)

\* block b is among the blocks with space
InAvail(av, b) == \E k \in 1..Len(av) : av[k] = b

\* free(p) has taken one entry from the block of p and from the arena, left
\* p without a value, left the other blocks as they were, and left the block
\* of p with space and among the blocks with space
FreePost(p) ==
    \A b \in {getBlockId(p)} :
        /\ last'.err = errNone
        /\ entryCount(b)' = entryCount(b) - 1
        /\ size' = size - 1
        /\ valueGet(p)' = Same(Undef, errNone)'
        /\ Len(blocks') = Len(blocks)
        /\ \A k \in 1..Len(blocks) :
              k # Pos(b) => /\ blocks'[k].nextFree = blocks[k].nextFree
                            /\ blocks'[k].freeList = blocks[k].freeList
        /\ HasSpace(Block(b))'
        /\ InAvail(blocksAvail', b)

\* C31: free(p) on an occupied pointer p decreases entryCount of p's block
\* and size() by exactly 1, makes value(p) undefined, leaves every other
\* block's nextFree and free list unchanged, and leaves p's block with space
\* available for a later alloc, in each of the three cases of free.
C31_FreeOccupied ==
    [][last'.op = "free" =>
         \A p \in BlockPtrs : SlotOccupied(p) /\ HeldFree(p) => FreePost(p)]_vars

\* C31, with values held by occupied entries only: the same for free(p) on an
\* occupied pointer p in a state where an index holds a value exactly when it
\* is below nextFree and not in the free list.
C31_FreeOccupiedOccupancy ==
    [][last'.op = "free" /\ Occupancy =>
         \A p \in BlockPtrs : SlotOccupied(p) /\ HeldFree(p) => FreePost(p)]_vars

\* a free has just pushed the middle index of the one-block arena on the free
\* list, the entries before and after it staying allocated
C31_Witness ==
    /\ last.op = "free" /\ last.err = errNone
    /\ blockSize = HeldBlockSize
    /\ Block(0).freeList = <<2>>
    /\ Block(0).nextFree = HeldBlockSize
    /\ Cardinality(last.held) = 2
    /\ Occupancy


\* an alloc that returned took its index from the block it changed: the top
\* of the free list when the list held one, with nextFree as it was, and else
\* nextFree, raised by one; a new block gives its index 0
LifoAlloc ==
    /\ \A k \in 1..Len(blocks) :
          blocks'[k] # blocks[k] =>
              /\ getBlockId(last'.ret) = blocks[k].blockId
              /\ IF blocks[k].freeList # << >>
                 THEN /\ getIndex(last'.ret) = blocks[k].freeList[Len(blocks[k].freeList)]
                      /\ blocks'[k].freeList = SubSeq(blocks[k].freeList, 1,
                                                      Len(blocks[k].freeList) - 1)
                      /\ blocks'[k].nextFree = blocks[k].nextFree
                 ELSE /\ getIndex(last'.ret) = blocks[k].nextFree
                      /\ blocks'[k].freeList = << >>
                      /\ blocks'[k].nextFree = blocks[k].nextFree + 1
    /\ Len(blocks') > Len(blocks) =>
          /\ getBlockId(last'.ret) = blocks'[Len(blocks')].blockId
          /\ getIndex(last'.ret) = 0
          /\ blocks'[Len(blocks')].freeList = << >>
          /\ blocks'[Len(blocks')].nextFree = 1
    /\ \E k \in 1..Len(blocks') : k > Len(blocks) \/ blocks'[k] # blocks[k]

\* a free or erase of p that lengthens a free list puts the index of p on top
LifoFree ==
    \A p \in BlockPtrs :
        (HeldFree(p) \/ HeldErase(p)) =>
            \A k \in 1..Len(blocks) :
                Len(blocks'[k].freeList) > Len(blocks[k].freeList) =>
                    /\ k = Pos(getBlockId(p))
                    /\ blocks'[k].freeList = Append(blocks[k].freeList, getIndex(p))

LifoStep ==
    /\ last'.op = "alloc" /\ last'.err = errNone => LifoAlloc
    /\ last'.op \in {"free", "erase"} /\ last'.err = errNone => LifoFree

\* C32: within a block, alloc reuses freed indices in LIFO order before
\* touching fresh ones: with a non-empty free list alloc returns the most
\* recently pushed index, and only with an empty free list does it return
\* nextFree and increment it.
C32_Lifo == [][LifoStep]_vars

\* C32, while the free lists fit their backing arrays: the same for every
\* call between states in which no free list is longer than blockSize.
C32_LifoFit == [][StacksFit /\ StacksFit' => LifoStep]_vars

\* alloc has just returned the index freed last of two freed out of order,
\* the one freed first staying on the free list
C32_Witness ==
    /\ last.op = "alloc" /\ last.err = errNone
    /\ blockSize = HeldBlockSize
    /\ getIndex(last.ret) = 1
    /\ Block(0).freeList = <<2>>
    /\ Block(0).nextFree = HeldBlockSize
    /\ StacksFit


\* an alloc that took a slot took it from the root when the root had space,
\* and left the root alone when it had none, taking it from another block
\* that had space or from a new block
RootFirst ==
    IF available(0) > 0
    THEN /\ Len(blocks') = Len(blocks)
         /\ blocks'[1] # blocks[1]
         /\ \A k \in 2..Len(blocks) : blocks'[k] = blocks[k]
    ELSE /\ blocks'[1] = blocks[1]
         /\ \/ Len(blocks') = Len(blocks) + 1
            \/ /\ Len(blocks') = Len(blocks)
               /\ \E k \in 2..Len(blocks) :
                     /\ blocks'[k] # blocks[k]
                     /\ available(blocks[k].blockId) > 0
                     /\ \A j \in 2..Len(blocks) : j # k => blocks'[j] = blocks[j]

\* C33: alloc called on the arena serves the request from block 0 whenever
\* block 0 has available space, whatever other blocks have space; only when
\* block 0 is full is another block with space used.
C33_RootFirst ==
    [][last'.op = "alloc" /\ last'.err \notin {errStack, errOutOfMemory}
          => RootFirst]_vars

\* alloc has just filled the root again while the second block has a freed
\* index on its free list and is among the blocks with space
C33_Witness ==
    /\ last = [op |-> "alloc", err |-> errNone]
    /\ Len(blocks) = MaxBlocks
    /\ Block(0).nextFree = blockSize /\ Block(0).freeList = << >>
    /\ blocks[MaxBlocks].freeList = <<0>>
    /\ InAvail(blocksAvail, blocks[MaxBlocks].blockId)
    /\ Occupancy


-----------------------------------------------------------------------------
(* The states of a slot: index i of block blk                               *)

Freed(blk, i) == \E j \in 1..Len(blk.freeList) : blk.freeList[j] = i
Unallocated(blk, i) == i >= blk.nextFree /\ ~Freed(blk, i)
Occupied(blk, i) == i >= blk.firstNextFree /\ i < blk.nextFree /\ ~Freed(blk, i)

\* the block was reset or wiped: nextFree at the first index, no free list
WholeBlock(blk) == blk.nextFree = blk.firstNextFree /\ blk.freeList = << >>

\* a free or erase of the occupied slot of p has left other occupied entries
\* in its block
FreesOneOfMany(p) ==
    /\ SlotOccupied(p) /\ Live(p)
    /\ HeldFree(p) \/ HeldErase(p)
    /\ \E i \in 0..(blockSize - 1) :
          i # getIndex(p) /\ Occupied(blocks'[Pos(getBlockId(p))], i)

\* C34: a slot that has been allocated returns to Unallocated only through a
\* whole-block reset or wipe; a single free or erase of an occupied slot in a
\* block that keeps other occupied entries always moves that slot to Freed,
\* never directly to Unallocated.
C34_SlotMachine ==
    [][/\ last'.op \in {"free", "erase"} =>
            \A p \in BlockPtrs :
                FreesOneOfMany(p) => Freed(blocks'[Pos(getBlockId(p))], getIndex(p))
       /\ \A k \in 1..Len(blocks) : \A i \in 0..(blockSize - 1) :
             /\ k <= Len(blocks')
             /\ ~Unallocated(blocks[k], i) /\ i >= blocks[k].firstNextFree
             /\ Unallocated(blocks'[k], i)
             => WholeBlock(blocks'[k])]_vars

\* C34, as the three cases of free have it, with values held by occupied
\* entries only: a free or erase of an occupied slot in a block that keeps
\* other occupied entries moves the slot to Unallocated when its index is
\* nextFree - 1, lowering nextFree by one, and to Freed otherwise; and a slot
\* returns to Unallocated only that way or through a whole-block reset or
\* wipe.
C34_SlotMachineLast ==
    [][Occupancy =>
       /\ last'.op \in {"free", "erase"} =>
            \A p \in BlockPtrs :
                FreesOneOfMany(p) =>
                    \A k \in {Pos(getBlockId(p))} :
                        IF getIndex(p) = blocks[k].nextFree - 1
                        THEN /\ Unallocated(blocks'[k], getIndex(p))
                             /\ blocks'[k].nextFree = blocks[k].nextFree - 1
                             /\ blocks'[k].freeList = blocks[k].freeList
                        ELSE /\ Freed(blocks'[k], getIndex(p))
                             /\ blocks'[k].nextFree = blocks[k].nextFree
       /\ \A k \in 1..Len(blocks) : \A i \in 0..(blockSize - 1) :
             /\ k <= Len(blocks')
             /\ ~Unallocated(blocks[k], i) /\ i >= blocks[k].firstNextFree
             /\ Unallocated(blocks'[k], i)
             => \/ WholeBlock(blocks'[k])
                \/ /\ last'.op \in {"free", "erase"}
                   /\ i = blocks[k].nextFree - 1
                   /\ blocks'[k].nextFree = i]_vars

\* a free has just returned the last index of the one-block arena to
\* Unallocated while the entry before it stays occupied
C34_Witness ==
    /\ last.op = "free" /\ last.err = errNone
    /\ blockSize = HeldBlockSize
    /\ Block(0).nextFree = 2 /\ Block(0).freeList = << >>
    /\ Occupied(Block(0), 1) /\ Unallocated(Block(0), 2)
    /\ Cardinality(issued) = 2
    /\ Occupancy


-----------------------------------------------------------------------------
(* The blocks with space                                                    *)

\* blocksAvail holds blocks of the block list only, and a block of the list
\* is in it exactly when it has available space
AvailExact ==
    /\ \A k \in 1..Len(blocksAvail) : blocksAvail[k] \in BlockIds
    /\ \A b \in BlockIds : InAvail(blocksAvail, b) <=> available(b) > 0

\* C35: available-set invariant: in every reachable state blocksAvail contains
\* exactly the blocks of the block list that have available(b) > 0; no full
\* block and no dropped block is a member, and no block with free space is
\* missing.
C35_AvailExact == Constructed => AvailExact

\* the same for the arenas with a blockSize of 2 or more
C35_AvailExactFrom2 == Constructed /\ blockSize >= 2 => AvailExact


-----------------------------------------------------------------------------
(* alloc with field names it rejects                                        *)

\* the errors alloc throws for a field name
FieldErrors ==
    {errUnknownPointerField, errUnknownRawField, errRawAsPointer, errPointerAsRaw}

\* C36: an alloc call that fails with an unknown-field or field-kind-mismatch
\* error leaves the arena unchanged: size(), every block's nextFree, free list
\* and values, and all field slabs are what they were before the call, so the
\* next successful alloc returns the pointer it would have returned without
\* the failed call.
C36_FailedAllocKeeps ==
    [][last'.op = "alloc" /\ last'.err \in FieldErrors
          => size' = size /\ blocks' = blocks /\ blocksAvail' = blocksAvail]_vars


-----------------------------------------------------------------------------
(* SpecWipe: an arena with a pointer field and a raw field of up to         *)
(* MaxBlocks blocks, under alloc with field values, free and wipeBlock on   *)
(* every block                                                              *)

NextWipe ==
    \/ \E v \in Values, a \in GoodRefs \X GoodRaws : Alloc(v, a[1], a[2])
    \/ \E p \in Ptrs : Free(p)
    \/ \E b \in BlockIds : WipeBlock(b)

SpecWipe == InitF /\ [][NextWipe]_vars

\* every entry of every slab of blk is 0
SlabsZero(blk) ==
    /\ \A i \in 1..Len(blk.fields) : \A j \in 1..blockSize :
          blk.fields[i][j] = nullPointer
    /\ \A i \in 1..Len(blk.rawFields) : \A j \in 1..blockSize :
          blk.rawFields[i][j] = nullPointer

\* C37: wipeBlock() on block b sets every pointer-field and raw-field entry of
\* b to 0, makes every value of b undefined, empties b's free list and resets
\* nextFree to the reserved first index, so that entryCount(b) is 1 for block
\* 0 and 0 otherwise, marks b as having space, and changes nothing in any
\* other block nor the block list.
C37_WipeBlock ==
    [][last'.op = "wipeBlock" =>
         \A b \in BlockIds :
             WipeBlock(b) =>
                 /\ last'.err = errNone
                 /\ SlabsZero(blocks'[Pos(b)])
                 /\ \A i \in 0..(blockSize - 1) :
                       ArrGet(blocks'[Pos(b)].values, i) = Undef
                 /\ blocks'[Pos(b)].freeList = << >>
                 /\ blocks'[Pos(b)].nextFree = IF b = 0 THEN 1 ELSE 0
                 /\ entryCount(b)' = IF b = 0 THEN 1 ELSE 0
                 /\ InAvail(blocksAvail', b)
                 /\ blocks'[Pos(b)].blockId = b
                 /\ Len(blocks') = Len(blocks)
                 /\ \A k \in 1..Len(blocks) : k # Pos(b) => blocks'[k] = blocks[k]
                 /\ \A c \in BlockIds :
                       c # b => (InAvail(blocksAvail', c) <=> InAvail(blocksAvail, c))]_vars

\* the root has just been wiped, every entry of its slabs reading 0, while the
\* second block keeps an occupied entry with non-zero fields next to a freed
\* one
C37_Witness ==
    /\ last = [op |-> "wipeBlock", err |-> errNone]
    /\ Len(blocks) = MaxBlocks
    /\ SlabsZero(Block(0)) /\ Block(0).nextFree = 1
    /\ blocks[MaxBlocks].freeList # << >>
    /\ \E q \in LivePtrs : /\ getBlockId(q) # 0
                           /\ refGet(q, "x").ret = Num(1)
                           /\ rawGet(q, "r").ret = Num(1)

====
